---- MODULE Spec2Model ----
(***************************************************************************)
(* Rule engine (core/rule_engine.py) and direct comparison                 *)
(* (core/comparator.py) of xlsx-tool.                                      *)
(*                                                                         *)
(* Text is a sequence of one-character strings, indexed from 1 (Python     *)
(* index i is index i+1 here).  A float is a fixed-point integer counted   *)
(* in units of 1/One = 5e-7, so that the engine's epsilon 1e-6 is two      *)
(* units; infinities and NaN are separate kinds of value.                  *)
(***************************************************************************)
EXTENDS Integers, Sequences, FiniteSets, TLC

\* ------------------------------------------------------------------------
\* Characters
\* ------------------------------------------------------------------------
UpperLetters ==
  <<"A","B","C","D","E","F","G","H","I","J","K","L","M",
    "N","O","P","Q","R","S","T","U","V","W","X","Y","Z">>

LowerLetters ==
  <<"a","b","c","d","e","f","g","h","i","j","k","l","m",
    "n","o","p","q","r","s","t","u","v","w","x","y","z">>

DigitChars == <<"0","1","2","3","4","5","6","7","8","9">>

Range(f) == {f[i] : i \in DOMAIN f}

IsUpper(c) == c \in Range(UpperLetters)

IsLower(c) == c \in Range(LowerLetters)

IsAlpha(c) == IsUpper(c) \/ IsLower(c)

IsDigit(c) == c \in Range(DigitChars)

IsSpace(c) == c \in {" ", "\t"}

DigitVal(c) == (CHOOSE i \in 1..10 : DigitChars[i] = c) - 1

ToUpper(c) == IF IsLower(c) THEN UpperLetters[CHOOSE i \in 1..26 : LowerLetters[i] = c] ELSE c

ToLower(c) == IF IsUpper(c) THEN LowerLetters[CHOOSE i \in 1..26 : UpperLetters[i] = c] ELSE c

\* ord(ch) - ord('A') + 1 for an upper-case letter
LetterOrd(c) == CHOOSE i \in 1..26 : UpperLetters[i] = c

Lower(s) == [i \in 1..Len(s) |-> ToLower(s[i])]

\* s[i..j-1] in Python's half-open slicing, on 1-based indices i..j-1
Slice(s, i, j) == SubSeq(s, i, j - 1)

StartsWith(s, p) == Len(s) >= Len(p) /\ SubSeq(s, 1, Len(p)) = p

\* least index at which p occurs in s, 0 when it does not (str.find + 1)
Find(s, p) ==
  LET hits == {i \in 1..(Len(s) - Len(p) + 1) : SubSeq(s, i, i + Len(p) - 1) = p}
  IN IF hits = {} THEN 0 ELSE CHOOSE i \in hits : \A j \in hits : i <= j

\* str.strip()
Strip(s) ==
  LET keep == {i \in 1..Len(s) : ~IsSpace(s[i])}
  IN IF keep = {} THEN <<>>
     ELSE LET lo == CHOOSE i \in keep : \A j \in keep : i <= j
              hi == CHOOSE i \in keep : \A j \in keep : j <= i
          IN SubSeq(s, lo, hi)

AlphaChars == Range(UpperLetters) \cup Range(LowerLetters)

\* the characters of a numeric literal
NumChars == Range(DigitChars) \cup {"."}

AlnumChars == AlphaChars \cup Range(DigitChars)

\* the characters taken after a FILE1:/FILE2: prefix
RefChars == AlnumChars \cup {":"}

\* first index j >= i with s[j] outside the class, Len(s)+1 when there is none
ScanEnd(s, i, class) ==
  CHOOSE j \in i..(Len(s) + 1) :
    /\ \A k \in i..(j - 1) : s[k] \in class
    /\ (j = Len(s) + 1 \/ s[j] \notin class)

\* ------------------------------------------------------------------------
\* Numbers
\* ------------------------------------------------------------------------
Million == 1000000

\* fixed-point scale: One units make 1.0
One == 2 * Million

\* 1e-6 in units
Epsilon == One \div Million

Abs(n) == IF n < 0 THEN -n ELSE n

Sgn(n) == IF n < 0 THEN -1 ELSE IF n > 0 THEN 1 ELSE 0

Fin(n) == [k |-> "fin", v |-> n, s |-> <<>>]

Inf(sign) == [k |-> "inf", v |-> sign, s |-> <<>>]

NaN == [k |-> "nan", v |-> 0, s |-> <<>>]

\* a pandas Series of floats
Series(xs) == [k |-> "series", v |-> 0, s |-> xs]

IsZero(a) == a.k = "fin" /\ a.v = 0

SignOf(a) == IF a.k = "fin" THEN Sgn(a.v) ELSE a.v

\* |a| * |b| / One, truncated, without leaving 32 bits for |a|, |b| < 1000 * One
MulAbs(a, b) ==
  LET a1 == a \div 2000
      a0 == a % 2000
      b1 == b \div 1000
      b0 == b % 1000
  IN a1 * b1 + ((2 * a1 * b0 + a0 * b1 + ((a0 * b0) \div 1000)) \div 2000)

RECURSIVE DivDigits(_, _, _, _)
DivDigits(q, r, b, k) ==
  IF k = 0 THEN q
  ELSE DivDigits(q * 10 + ((r * 10) \div b), (r * 10) % b, b, k - 1)

\* |a| * One / |b|, truncated, by long division
DivAbs(a, b) == DivDigits((2 * a) \div b, (2 * a) % b, b, 6)

\* Python's a % b on numbers: the result takes the sign of b
PyMod(a, b) == IF b > 0 THEN a % b ELSE -((-a) % (-b))

Neg(a) ==
  CASE a.k = "fin" -> Fin(-a.v)
    [] a.k = "inf" -> Inf(-a.v)
    [] OTHER -> a

FAdd(a, b) ==
  CASE a.k = "nan" \/ b.k = "nan" -> NaN
    [] a.k = "fin" /\ b.k = "fin" -> Fin(a.v + b.v)
    [] a.k = "inf" /\ b.k = "fin" -> a
    [] a.k = "fin" /\ b.k = "inf" -> b
    [] OTHER -> IF a.v = b.v THEN a ELSE NaN

FSub(a, b) == FAdd(a, Neg(b))

FMul(a, b) ==
  CASE a.k = "nan" \/ b.k = "nan" -> NaN
    [] a.k = "fin" /\ b.k = "fin" -> Fin(Sgn(a.v) * Sgn(b.v) * MulAbs(Abs(a.v), Abs(b.v)))
    [] OTHER -> IF IsZero(a) \/ IsZero(b) THEN NaN ELSE Inf(SignOf(a) * SignOf(b))

\* a / b for b != 0
FDiv(a, b) ==
  CASE a.k = "nan" \/ b.k = "nan" -> NaN
    [] a.k = "fin" /\ b.k = "fin" -> Fin(Sgn(a.v) * Sgn(b.v) * DivAbs(Abs(a.v), Abs(b.v)))
    [] a.k = "inf" /\ b.k = "fin" -> Inf(a.v * Sgn(b.v))
    [] a.k = "fin" /\ b.k = "inf" -> Fin(0)
    [] OTHER -> NaN

\* a % b for b != 0
FMod(a, b) ==
  CASE a.k = "nan" \/ b.k = "nan" -> NaN
    [] a.k = "fin" /\ b.k = "fin" -> Fin(PyMod(a.v, b.v))
    [] a.k = "inf" -> NaN
    [] OTHER -> IF a.v = 0 \/ Sgn(a.v) = b.v THEN a ELSE b

FAbs(a) ==
  CASE a.k = "fin" -> Fin(Abs(a.v))
    [] a.k = "inf" -> Inf(1)
    [] OTHER -> a

Rank(a) == IF a.k = "inf" THEN a.v ELSE 0

\* Python's a < b and a == b on floats (every comparison with NaN is false)
FLess(a, b) ==
  /\ a.k # "nan"
  /\ b.k # "nan"
  /\ \/ Rank(a) < Rank(b)
     \/ (a.k = "fin" /\ b.k = "fin" /\ a.v < b.v)

FEq(a, b) ==
  /\ a.k # "nan"
  /\ b.k # "nan"
  /\ a.k = b.k
  /\ a.v = b.v

\* a Python bool used as a number
Bool(p) == IF p THEN Fin(One) ELSE Fin(0)

\* ------------------------------------------------------------------------
\* Outcomes: a returned value, or the exception that was raised
\* ------------------------------------------------------------------------
Ok(v) == [ok |-> TRUE, err |-> "", val |-> v]

Err(e) == [ok |-> FALSE, err |-> e, val |-> <<>>]

\* ------------------------------------------------------------------------
\* RuleEngine.__init__ : the operator table
\* ------------------------------------------------------------------------
ComparisonOps == {<<"=">>, <<"!", "=">>, <<"<">>, <<"<", "=">>, <<">">>, <<">", "=">>}

ArithmeticOps == {<<"+">>, <<"-">>, <<"*">>, <<"/">>, <<"%">>}

operators == ComparisonOps \cup ArithmeticOps

Precedence(op) ==
  CASE op \in ComparisonOps -> 1
    [] op \in {<<"+">>, <<"-">>} -> 2
    [] OTHER -> 3

\* variant: the two zero-divisor results are exchanged
op_func_swapped_zero(op, a, b) ==
  CASE op = <<"/">> /\ IsZero(b) -> Fin(0)
    [] op = <<"%">> /\ IsZero(b) -> Inf(1)
    [] op = <<"/">> /\ ~IsZero(b) -> FDiv(a, b)
    [] op = <<"%">> /\ ~IsZero(b) -> FMod(a, b)
    [] op = <<"+">> -> FAdd(a, b)
    [] op = <<"-">> -> FSub(a, b)
    [] op = <<"*">> -> FMul(a, b)
    [] op = <<"=">> -> Bool(FEq(a, b))
    [] op = <<"!", "=">> -> Bool(~FEq(a, b))
    [] op = <<"<">> -> Bool(FLess(a, b))
    [] op = <<"<", "=">> -> Bool(FLess(a, b) \/ FEq(a, b))
    [] op = <<">">> -> Bool(FLess(b, a))
    [] OTHER -> Bool(FLess(b, a) \/ FEq(a, b))

\* the lambda stored for op, applied to two scalars
op_func(op, a, b) ==
  CASE op = <<"=">> -> Bool(FEq(a, b))
    [] op = <<"!", "=">> -> Bool(~FEq(a, b))
    [] op = <<"<">> -> Bool(FLess(a, b))
    [] op = <<"<", "=">> -> Bool(FLess(a, b) \/ FEq(a, b))
    [] op = <<">">> -> Bool(FLess(b, a))
    [] op = <<">", "=">> -> Bool(FLess(b, a) \/ FEq(a, b))
    [] op = <<"+">> -> FAdd(a, b)
    [] op = <<"-">> -> FSub(a, b)
    [] op = <<"*">> -> FMul(a, b)
    [] op = <<"/">> -> IF ~IsZero(b) THEN FDiv(a, b) ELSE Inf(1)
    [] op = <<"%">> -> IF ~IsZero(b) THEN FMod(a, b) ELSE Fin(0)

\* ------------------------------------------------------------------------
\* RuleEngine.parse_expression : tokenizer
\* ------------------------------------------------------------------------
NumTok(n) == [t |-> "num", n |-> n, s |-> <<>>]

StrTok(s) == [t |-> "str", n |-> 0, s |-> s]

IsNumChar(c) == IsDigit(c) \/ c = "."

IsAlnum(c) == IsAlpha(c) \/ IsDigit(c)

Count(s, c) == Cardinality({i \in 1..Len(s) : s[i] = c})

RECURSIVE DigitsVal(_)
DigitsVal(ds) ==
  IF ds = <<>> THEN 0 ELSE DigitsVal(SubSeq(ds, 1, Len(ds) - 1)) * 10 + DigitVal(ds[Len(ds)])

\* the digits after the decimal point, in units (digits past the sixth are below one unit)
RECURSIVE FracVal(_, _)
FracVal(ds, weight) ==
  IF ds = <<>> \/ weight = 0 THEN 0
  ELSE DigitVal(ds[1]) * weight + FracVal(Tail(ds), weight \div 10)

\* int(text) when text has no '.', float(text) otherwise; text holds digits and dots only
ParseNumber(text) ==
  LET dots == Count(text, ".")
      dot == Find(text, <<".">>)
  IN IF dots = 0 THEN Ok(DigitsVal(text) * One)
     ELSE IF dots > 1 \/ Len(text) = 1 THEN Err("BadNumber")
     ELSE Ok(DigitsVal(SubSeq(text, 1, dot - 1)) * One
             + FracVal(SubSeq(text, dot + 1, Len(text)), One \div 10))

FILE1 == <<"F", "I", "L", "E", "1", ":">>

FILE2 == <<"F", "I", "L", "E", "2", ":">>

\* variant: the colon count is compared with 2, so FILE1:A1:B2 passes the tokenizer
IsRangeTokenOffByOne(token) == Count(token, ":") > 2

\* "token.count(':') > 1" on a FILE1:/FILE2: token
IsRangeToken(token) == Count(token, ":") > 1

IsUnaryPosition(expr, i) ==
  i = 1 \/ IsSpace(expr[i - 1]) \/ expr[i - 1] \in {"+", "-", "*", "/", "%", "(", ")"}

RECURSIVE Tokenize(_, _, _)
Tokenize(expr, i, tokens) ==
  LET n == Len(expr)
      c == expr[i]
  IN IF i > n THEN Ok(tokens)
     ELSE IF IsSpace(c) THEN Tokenize(expr, i + 1, tokens)
     ELSE IF c = "-" /\ IsUnaryPosition(expr, i) THEN
       IF i + 1 <= n /\ IsNumChar(expr[i + 1]) THEN
         LET j == ScanEnd(expr, i + 1, NumChars)
             num == ParseNumber(Slice(expr, i + 1, j))
         IN IF num.ok THEN Tokenize(expr, j, Append(tokens, NumTok(-num.val)))
            ELSE num
       ELSE Tokenize(expr, i + 1, Append(tokens, StrTok(<<"-">>)))
     ELSE IF i + 5 <= n /\ Slice(expr, i, i + 6) \in {FILE1, FILE2} THEN
       LET j == ScanEnd(expr, i + 6, RefChars)
           token == Slice(expr, i, j)
       IN IF IsRangeToken(token) THEN Err("RangeNotSupported")
          ELSE Tokenize(expr, j, Append(tokens, StrTok(token)))
     ELSE IF IsAlpha(c) THEN
       LET j == ScanEnd(expr, i, AlnumChars)
       IN Tokenize(expr, j, Append(tokens, StrTok(Slice(expr, i, j))))
     ELSE IF IsNumChar(c) THEN
       LET j == ScanEnd(expr, i, NumChars)
           num == ParseNumber(Slice(expr, i, j))
       IN IF num.ok THEN Tokenize(expr, j, Append(tokens, NumTok(num.val)))
          ELSE num
     ELSE IF <<c>> \in operators THEN
       IF i + 1 <= n /\ Slice(expr, i, i + 2) \in operators
       THEN Tokenize(expr, i + 2, Append(tokens, StrTok(Slice(expr, i, i + 2))))
       ELSE Tokenize(expr, i + 1, Append(tokens, StrTok(<<c>>)))
     ELSE IF c \in {"(", ")"} THEN Tokenize(expr, i + 1, Append(tokens, StrTok(<<c>>)))
     ELSE Err("InvalidChar")

\* ------------------------------------------------------------------------
\* RuleEngine.parse_expression : infix to postfix
\* ------------------------------------------------------------------------
\* str.isalnum()
IsAlnumStr(s) == s # <<>> /\ \A i \in 1..Len(s) : IsAlnum(s[i])

IsOperand(token) ==
  \/ token.t = "num"
  \/ IsAlnumStr(token.s)
  \/ StartsWith(token.s, FILE1)
  \/ StartsWith(token.s, FILE2)

Top(stack) == stack[Len(stack)]

Pop(stack) == SubSeq(stack, 1, Len(stack) - 1)

\* pop operators to the output down to the nearest "(" (or to the bottom)
RECURSIVE PopToParen(_, _)
PopToParen(output, stack) ==
  IF stack # <<>> /\ Top(stack).s # <<"(">>
  THEN PopToParen(Append(output, Top(stack)), Pop(stack))
  ELSE <<output, stack>>

\* pop the operators that bind at least as tightly as token
RECURSIVE PopHigher(_, _, _)
PopHigher(output, stack, token) ==
  IF stack # <<>> /\ Top(stack).s # <<"(">> /\ Precedence(Top(stack).s) >= Precedence(token.s)
  THEN PopHigher(Append(output, Top(stack)), Pop(stack), token)
  ELSE <<output, stack>>

\* variant: an open parenthesis left on the stack at the end is dropped
RECURSIVE PopRestLenient(_, _)
PopRestLenient(output, stack) ==
  IF stack = <<>> THEN Ok(output)
  ELSE IF Top(stack).s = <<"(">> THEN PopRestLenient(output, Pop(stack))
  ELSE PopRestLenient(Append(output, Top(stack)), Pop(stack))

\* pop what is left at the end of the input
RECURSIVE PopRest(_, _)
PopRest(output, stack) ==
  IF stack = <<>> THEN Ok(output)
  ELSE IF Top(stack).s = <<"(">> THEN Err("MismatchedParens")
  ELSE PopRest(Append(output, Top(stack)), Pop(stack))

RECURSIVE ToPostfix(_, _, _)
ToPostfix(tokens, output, stack) ==
  IF tokens = <<>> THEN PopRest(output, stack)
  ELSE LET token == Head(tokens)
           rest == Tail(tokens)
       IN IF IsOperand(token) THEN ToPostfix(rest, Append(output, token), stack)
          ELSE IF token.s = <<"(">> THEN ToPostfix(rest, output, Append(stack, token))
          ELSE IF token.s = <<")">> THEN
            LET p == PopToParen(output, stack)
            IN IF p[2] = <<>> THEN Err("MismatchedParens")
               ELSE ToPostfix(rest, p[1], Pop(p[2]))
          ELSE IF token.s \in operators THEN
            LET p == PopHigher(output, stack, token)
            IN ToPostfix(rest, p[1], Append(p[2], token))
          ELSE ToPostfix(rest, output, stack)

parse_expression(expr) ==
  LET tokens == Tokenize(expr, 1, <<>>)
  IN IF tokens.ok THEN ToPostfix(tokens.val, <<>>, <<>>) ELSE tokens

\* ------------------------------------------------------------------------
\* Datasets (pandas DataFrames) and their cells
\* ------------------------------------------------------------------------
\* a missing value stored as float NaN
NaNCell == [t |-> "nan", n |-> 0, s |-> <<>>]

\* a missing value stored as None (object column), also a read outside the grid
NoneCell == [t |-> "none", n |-> 0, s |-> <<>>]

\* numpy.int64 read from an integer column; n is in units
NpInt(n) == [t |-> "npint", n |-> n * One, s |-> <<>>]

\* numpy.float64 (a subclass of float) read from a float column; n is in units
Float(n) == [t |-> "float", n |-> n, s |-> <<>>]

\* a Python int held in an object column
PyInt(n) == [t |-> "pyint", n |-> n * One, s |-> <<>>]

\* a Python str held in an object column
Text(s) == [t |-> "str", n |-> 0, s |-> s]

DataFrame(columns, data) == [isnone |-> FALSE, columns |-> columns, data |-> data]

None == [isnone |-> TRUE, columns |-> <<>>, data |-> <<>>]

NRows(df) == Len(df.data)

NCols(df) == Len(df.columns)

\* df.iloc[r, c] with 0-based r and c
Iloc(df, r, c) == df.data[r + 1][c + 1]

\* pd.isna(value)
IsNa(cell) == cell.t \in {"nan", "none"}

\* isinstance(value, (int, float)): numpy.int64 is not an int, None is not a number
IsIntOrFloat(cell) == cell.t \in {"pyint", "float", "nan"}

\* the words float() reads as an infinity, compared in lower case
InfWords == {<<"i", "n", "f">>, <<"i", "n", "f", "i", "n", "i", "t", "y">>}

\* the float of a numeral outcome; a malformed numeral is a ValueError
FinOutcome(num) == IF num.ok THEN Ok(Fin(num.val)) ELSE Err("ValueError")

\* float() of text without blanks and sign: one of the words inf, infinity, nan in any
\* letter case, or digits with at most one point
UnsignedFloat(body) ==
  IF Lower(body) \in InfWords THEN Ok(Inf(1))
  ELSE IF Lower(body) = <<"n", "a", "n">> THEN Ok(NaN)
  ELSE IF body = <<>> \/ ~(\A i \in 1..Len(body) : IsNumChar(body[i])) THEN Err("ValueError")
  ELSE FinOutcome(ParseNumber(body))

\* the sign applied to a converted value
WithSign(negative, outcome) ==
  IF negative /\ outcome.ok THEN Ok(Neg(outcome.val)) ELSE outcome

\* float() of text without surrounding blanks: an optional sign, then the value
SignedFloat(t) ==
  WithSign(t # <<>> /\ t[1] = "-",
           UnsignedFloat(IF t # <<>> /\ t[1] \in {"-", "+"} THEN Tail(t) ELSE t))

\* float(text) for a str.
\* (Exponents and underscores are not used by the datasets below.)
TextToFloat(text) == SignedFloat(Strip(text))

\* "try: return float(value) except ValueError: return 0.0"
OrZero(outcome) == IF outcome.ok THEN outcome.val ELSE Fin(0)

\* variant: an absent cell stays not-a-number and text is not converted
CellToFloatUnfilled(cell) ==
  IF IsNa(cell) \/ cell.t = "str" THEN NaN ELSE Fin(cell.n)

\* the float get_cell_value makes of one cell: NaN/None and unparsable text are 0.0
CellToFloat(cell) ==
  IF IsNa(cell) THEN Fin(0)
  ELSE IF cell.t = "str" THEN OrZero(TextToFloat(cell.s))
  ELSE Fin(cell.n)

\* fillna(0) on one element
FillNa(x) == IF x = NaN THEN Fin(0) ELSE x

\* one element of pd.to_numeric(col, errors='coerce').fillna(0): as for a single cell,
\* except that a not-a-number produced by the conversion is filled with 0 as well
ColumnElement(cell) == FillNa(CellToFloat(cell))

\* ------------------------------------------------------------------------
\* RuleEngine.get_cell_value
\* ------------------------------------------------------------------------
\* col_idx of the column letters: A -> 0, Z -> 25, AA -> 26
RECURSIVE LettersValue(_)
LettersValue(letters) ==
  IF letters = <<>> THEN 0
  ELSE LettersValue(SubSeq(letters, 1, Len(letters) - 1)) * 26
       + LetterOrd(ToUpper(letters[Len(letters)]))

ColIdx(letters) == LettersValue(letters) - 1

\* re.match(r'^([A-Za-z]+)(\d+)$', cell_ref)
IsCellRef(ref) ==
  LET e == ScanEnd(ref, 1, AlphaChars)
  IN /\ e > 1
     /\ e <= Len(ref)
     /\ \A i \in e..Len(ref) : IsDigit(ref[i])

\* re.match(r'^([A-Za-z]+)$', cell_ref)
IsColRef(ref) == ref # <<>> /\ \A i \in 1..Len(ref) : IsAlpha(ref[i])

\* variant: an address outside the dataset reads as 0.0
OutOfRangeDefault(kind) == Ok(Fin(0))

\* raise ValueError for a column or row index outside the dataset
OutOfRange(kind) == Err(kind)

get_cell_value(cell_ref, df) ==
  IF IsCellRef(cell_ref) THEN
    LET e == ScanEnd(cell_ref, 1, AlphaChars)
        col_idx == ColIdx(Slice(cell_ref, 1, e))
        row_idx == DigitsVal(Slice(cell_ref, e, Len(cell_ref) + 1)) - 1
    IN IF col_idx < 0 \/ col_idx >= NCols(df) THEN OutOfRange("ColOutOfRange")
       ELSE IF row_idx < 0 \/ row_idx >= NRows(df) THEN OutOfRange("RowOutOfRange")
       ELSE Ok(CellToFloat(Iloc(df, row_idx, col_idx)))
  ELSE IF IsColRef(cell_ref) THEN
    LET col_idx == ColIdx(cell_ref)
    IN IF col_idx < 0 \/ col_idx >= NCols(df) THEN OutOfRange("ColOutOfRange")
       ELSE Ok(Series([r \in 1..NRows(df) |-> ColumnElement(Iloc(df, r - 1, col_idx))]))
  ELSE Err("InvalidRef")

\* ------------------------------------------------------------------------
\* RuleEngine.evaluate_expression
\* ------------------------------------------------------------------------
\* "make sure the value is a scalar": anything with a .shape is read as x.iloc[0, 0]
\* when x.shape[0] > 0 and x.shape[1] > 0.  A Series has a one-element shape, so for a
\* non-empty Series x.shape[1] raises IndexError; an empty one becomes 0.0.
ToScalar(x) ==
  IF x.k = "series"
  THEN (IF Len(x.s) > 0 THEN Err("IndexError") ELSE Ok(Fin(0)))
  ELSE Ok(x)

\* variant: the two prefixes pick each other's dataset
ResolveSwapped(token, df1, df2) ==
  IF StartsWith(token, FILE2) THEN get_cell_value(SubSeq(token, 7, Len(token)), df1)
  ELSE IF StartsWith(token, FILE1) THEN
    (IF df2.isnone THEN Err("NeedDf2") ELSE get_cell_value(SubSeq(token, 7, Len(token)), df2))
  ELSE get_cell_value(token, df1)

\* the value of an address token
Resolve(token, df1, df2) ==
  IF StartsWith(token, FILE1) THEN get_cell_value(SubSeq(token, 7, Len(token)), df1)
  ELSE IF StartsWith(token, FILE2) THEN
    (IF df2.isnone THEN Err("NeedDf2") ELSE get_cell_value(SubSeq(token, 7, Len(token)), df2))
  ELSE get_cell_value(token, df1)

\* variant: whatever is on top of the stack at the end is the result
FinalValueTop(stack) ==
  IF stack = <<>> THEN Err("InvalidExpression") ELSE ToScalar(stack[Len(stack)])

\* "if len(stack) != 1: raise ValueError", then the result made a scalar
FinalValue(stack) ==
  IF Len(stack) # 1 THEN Err("InvalidExpression") ELSE ToScalar(stack[1])

RECURSIVE EvalPostfix(_, _, _, _)
EvalPostfix(rpn, stack, df1, df2) ==
  IF rpn = <<>> THEN FinalValue(stack)
  ELSE LET token == Head(rpn)
       IN IF token.t = "num" THEN EvalPostfix(Tail(rpn), Append(stack, Fin(token.n)), df1, df2)
          ELSE IF token.s \in operators THEN
            IF Len(stack) < 2 THEN Err("InvalidExpression")
            ELSE LET b == ToScalar(stack[Len(stack)])
                     a == ToScalar(stack[Len(stack) - 1])
                 IN IF ~a.ok THEN a
                    ELSE IF ~b.ok THEN b
                    ELSE EvalPostfix(Tail(rpn),
                                     Append(SubSeq(stack, 1, Len(stack) - 2),
                                            op_func(token.s, a.val, b.val)),
                                     df1, df2)
          ELSE LET cell_value == Resolve(token.s, df1, df2)
               IN IF ~cell_value.ok THEN cell_value
                  ELSE EvalPostfix(Tail(rpn), Append(stack, cell_value.val), df1, df2)

evaluate_expression(expr, df1, df2) ==
  LET rpn == parse_expression(expr)
  IN IF rpn.ok THEN EvalPostfix(rpn.val, <<>>, df1, df2) ELSE rpn

\* ------------------------------------------------------------------------
\* RuleEngine.parse_rule
\* ------------------------------------------------------------------------
\* variant: the one-character operators are looked for first
RuleOpsShortFirst == << <<"=">>, <<">">>, <<"<">>, <<">", "=">>, <<"<", "=">>, <<"!", "=">> >>

\* the order in which parse_rule looks for a comparison operator
RuleOps == << <<">", "=">>, <<"<", "=">>, <<"!", "=">>, <<"=">>, <<">">>, <<"<">> >>

parse_rule(rule) ==
  LET found == {k \in 1..Len(RuleOps) : Find(rule, RuleOps[k]) # 0}
  IN IF found = {} THEN Err("InvalidRule")
     ELSE LET k == CHOOSE x \in found : \A y \in found : x <= y
              op == RuleOps[k]
              at == Find(rule, op)
          IN Ok(<<Strip(SubSeq(rule, 1, at - 1)), op,
                  Strip(SubSeq(rule, at + Len(op), Len(rule)))>>)

\* ------------------------------------------------------------------------
\* RuleEngine.validate_rule
\* ------------------------------------------------------------------------
\* variant: '=' accepts a difference of exactly 1e-6 and '!=' rejects it
CompareInclusive(op, l, r) ==
  LET d == FAbs(FSub(l, r))
  IN CASE op = <<"=">> -> FLess(d, Fin(Epsilon)) \/ FEq(d, Fin(Epsilon))
       [] op = <<"!", "=">> -> FLess(Fin(Epsilon), d)
       [] op = <<"<">> -> FLess(l, r)
       [] op = <<"<", "=">> -> FLess(l, r) \/ FEq(l, r)
       [] op = <<">">> -> FLess(r, l)
       [] op = <<">", "=">> -> FLess(r, l) \/ FEq(l, r)
       [] OTHER -> FALSE

\* the comparison of two floats under the rule's operator
Compare(op, l, r) ==
  LET d == FAbs(FSub(l, r))
  IN CASE op = <<"=">> -> FLess(d, Fin(Epsilon))
       [] op = <<"!", "=">> -> FLess(Fin(Epsilon), d) \/ FEq(d, Fin(Epsilon))
       [] op = <<"<">> -> FLess(l, r)
       [] op = <<"<", "=">> -> FLess(l, r) \/ FEq(l, r)
       [] op = <<">">> -> FLess(r, l)
       [] op = <<">", "=">> -> FLess(r, l) \/ FEq(l, r)
       [] OTHER -> FALSE

\* an evidence coordinate; a row of a column rule carries None for its column
Coord(row, col) == [row |-> row, col |-> col, col_is_none |-> FALSE]

RowOnly(row) == [row |-> row, col |-> 0, col_is_none |-> TRUE]

\* re.search(r'([A-Za-z]+)(\d+)', rule): the leftmost run of letters that a digit follows
CellMatchStarts(rule) ==
  {i \in 1..Len(rule) :
     /\ IsAlpha(rule[i])
     /\ LET e == ScanEnd(rule, i, AlphaChars) IN e <= Len(rule) /\ IsDigit(rule[e])}

\* the coordinate recorded for a scalar rule: none, or that of the first match
CellEvidence(rule) ==
  IF CellMatchStarts(rule) = {} THEN <<>>
  ELSE LET i == CHOOSE x \in CellMatchStarts(rule) : \A y \in CellMatchStarts(rule) : x <= y
           e == ScanEnd(rule, i, AlphaChars)
           f == ScanEnd(rule, e, Range(DigitChars))
       IN <<Coord(DigitsVal(Slice(rule, e, f)) - 1, ColIdx(Slice(rule, i, e)))>>

\* rows i of the two Series for which the comparison has the given outcome, in row order
RECURSIVE RowsWhere(_, _, _, _, _)
RowsWhere(op, left, right, outcome, i) ==
  IF i > Len(left) THEN <<>>
  ELSE (IF Compare(op, left[i], right[i]) = outcome THEN <<RowOnly(i - 1)>> ELSE <<>>)
       \o RowsWhere(op, left, right, outcome, i + 1)

\* the column branch: a scalar side is repeated to the length of the other side
ColumnRule(op, left_value, right_value) ==
  LET left == IF left_value.k = "series" THEN left_value.s
              ELSE [i \in 1..Len(right_value.s) |-> left_value]
      right == IF right_value.k = "series" THEN right_value.s
               ELSE [i \in 1..Len(left_value.s) |-> right_value]
  IN IF Len(left) # Len(right) THEN <<FALSE, <<>>, <<>>>>
     ELSE LET failed_cells == RowsWhere(op, left, right, FALSE, 1)
              passed_cells == RowsWhere(op, left, right, TRUE, 1)
          IN <<failed_cells = <<>>, failed_cells, passed_cells>>

\* the cell branch
CellRule(rule, op, left_value, right_value) ==
  LET final_result == Compare(op, left_value, right_value)
  IN IF final_result THEN <<TRUE, <<>>, CellEvidence(rule)>>
     ELSE <<FALSE, CellEvidence(rule), <<>>>>

\* the decision of validate_rule once both sides of the rule have been evaluated
Decide(rule, op, left_value, right_value) ==
  IF ~left_value.ok \/ ~right_value.ok THEN <<FALSE, <<>>, <<>>>>
  ELSE IF left_value.val.k = "series" \/ right_value.val.k = "series"
       THEN ColumnRule(op, left_value.val, right_value.val)
       ELSE CellRule(rule, op, left_value.val, right_value.val)

\* variant: a failure of the right-hand side is not caught and its value is read as 0.0
validate_rule_right_unchecked(rule, df1, df2) ==
  LET parsed == parse_rule(rule)
  IN IF ~parsed.ok THEN <<FALSE, <<>>, <<>>>>
     ELSE CHOOSE result \in
            {Decide(rule, parsed.val[2], left_value,
                    IF right_value.ok THEN right_value ELSE Ok(Fin(0))) :
               left_value \in {evaluate_expression(parsed.val[1], df1, df2)},
               right_value \in {evaluate_expression(parsed.val[3], df1, df2)}} : TRUE

\* returns the tuple (is_valid, failed_cells, passed_cells); each side is evaluated once
validate_rule(rule, df1, df2) ==
  LET parsed == parse_rule(rule)
  IN IF ~parsed.ok THEN <<FALSE, <<>>, <<>>>>
     ELSE CHOOSE result \in
            {Decide(rule, parsed.val[2], left_value, right_value) :
               left_value \in {evaluate_expression(parsed.val[1], df1, df2)},
               right_value \in {evaluate_expression(parsed.val[3], df1, df2)}} : TRUE

\* ------------------------------------------------------------------------
\* RuleEngine.validate_all_rules
\* ------------------------------------------------------------------------
\* bool(x) of a Python tuple: true unless the tuple is empty
Truthy(tuple) == Len(tuple) # 0

\* the branch taken by "if self.validate_rule(rule, df1, df2):"
RulePasses(rule, df1, df2) == Truthy(validate_rule(rule, df1, df2))

RECURSIVE Filter(_, _, _, _)
Filter(rules, df1, df2, outcome) ==
  IF rules = <<>> THEN <<>>
  ELSE (IF RulePasses(Head(rules), df1, df2) = outcome THEN <<Head(rules)>> ELSE <<>>)
       \o Filter(Tail(rules), df1, df2, outcome)

\* variant: the batch stops at the first rule that does not parse
RECURSIVE UntilMalformed(_)
UntilMalformed(rules) ==
  IF rules = <<>> \/ ~parse_rule(Head(rules)).ok THEN <<>>
  ELSE <<Head(rules)>> \o UntilMalformed(Tail(rules))

validate_all_rules_abort(rules, df1, df2) ==
  <<Filter(UntilMalformed(rules), df1, df2, TRUE), Filter(UntilMalformed(rules), df1, df2, FALSE)>>

\* returns the tuple (passed, failed)
validate_all_rules(rules, df1, df2) ==
  <<Filter(rules, df1, df2, TRUE), Filter(rules, df1, df2, FALSE)>>

\* ------------------------------------------------------------------------
\* ExcelComparator.compare_direct
\* ------------------------------------------------------------------------
RECURSIVE NatToChars(_)
NatToChars(n) ==
  IF n < 10 THEN <<DigitChars[n + 1]>> ELSE NatToChars(n \div 10) \o <<DigitChars[(n % 10) + 1]>>

\* str(n) of an integer
IntToChars(n) == IF n < 0 THEN <<"-">> \o NatToChars(-n) ELSE NatToChars(n)

\* the digits of x, one per place from place value p down to 1
RECURSIVE PlaceDigits(_, _)
PlaceDigits(x, p) ==
  IF p = 0 THEN <<>> ELSE <<DigitChars[(x \div p) + 1]>> \o PlaceDigits(x % p, p \div 10)

RECURSIVE StripZeros(_)
StripZeros(ds) ==
  IF Len(ds) > 1 /\ ds[Len(ds)] = "0" THEN StripZeros(SubSeq(ds, 1, Len(ds) - 1)) ELSE ds

\* the decimals of f units (f < One) as repr prints them: the seven digits of f * 5e-7
\* without trailing zeros, at least one digit
FracChars(f) == StripZeros(PlaceDigits(f * 5, Million))

\* str(x) of a float
FloatToChars(n) ==
  (IF n < 0 THEN <<"-">> ELSE <<>>)
  \o NatToChars(Abs(n) \div One) \o <<".">> \o FracChars(Abs(n) % One)

\* str(v) of a cell value
CellToChars(cell) ==
  CASE cell.t \in {"npint", "pyint"} -> IntToChars(cell.n \div One)
    [] cell.t = "float" -> FloatToChars(cell.n)
    [] cell.t = "str" -> cell.s
    [] cell.t = "nan" -> <<"n", "a", "n">>
    [] OTHER -> <<"N", "o", "n", "e">>

\* the cell as a Python number
CellNum(cell) == IF cell.t = "nan" THEN NaN ELSE Fin(cell.n)

\* df.iloc[r, c] inside the grid, None outside it
CellOrNone(df, r, c) == IF r < NRows(df) /\ c < NCols(df) THEN Iloc(df, r, c) ELSE NoneCell

\* variant: the ignore_case option is not consulted
SameTextExact(s1, s2, ignore_case) == s1 = s2

\* s1 == s2, after s1.lower() and s2.lower() when ignore_case is set
SameText(s1, s2, ignore_case) == IF ignore_case THEN Lower(s1) = Lower(s2) ELSE s1 = s2

\* status of a coordinate where at least one cell is present: the numeric branch for two
\* int/float values, the string branch otherwise
PresentStatus(v1, v2, tol, ignore_case) ==
  IF IsIntOrFloat(v1) /\ IsIntOrFloat(v2) THEN
    LET diff == FAbs(FSub(CellNum(v1), CellNum(v2)))
    IN IF FLess(diff, Fin(tol)) \/ FEq(diff, Fin(tol)) THEN "equal" ELSE "diff"
  ELSE
    LET s1 == IF ~IsNa(v1) THEN CellToChars(v1) ELSE <<>>
        s2 == IF ~IsNa(v2) THEN CellToChars(v2) ELSE <<>>
    IN IF SameText(s1, s2, ignore_case) THEN "equal" ELSE "diff"

\* variant: two absent cells are compared like any other pair
CellStatusUnguarded(v1, v2, tol, ignore_case) == PresentStatus(v1, v2, tol, ignore_case)

\* status of one coordinate
CellStatus(v1, v2, tol, ignore_case) ==
  IF IsNa(v1) /\ IsNa(v2) THEN "equal" ELSE PresentStatus(v1, v2, tol, ignore_case)

\* display value of one coordinate
CellDisplay(v1, v2) == IF ~IsNa(v1) THEN v1 ELSE v2

\* label of result column i (0-based)
ColName(df1, df2, i) ==
  IF i < NCols(df1) THEN df1.columns[i + 1]
  ELSE IF i < NCols(df2) THEN df2.columns[i + 1]
  ELSE <<"C", "O", "L", "_">> \o IntToChars(i)

\* variant: the smaller of the two extents
Min(a, b) == IF a <= b THEN a ELSE b

Max(a, b) == IF a >= b THEN a ELSE b

\* returns the tuple (result_df, result_map); result_map is keyed by <<r, c>>, 0-based
compare_direct(df1, df2, options) ==
  LET tol == options.tolerance
      ignore_case == options.ignore_case
      rows == Max(NRows(df1), NRows(df2))
      cols == Max(NCols(df1), NCols(df2))
      col_names == [i \in 1..cols |-> ColName(df1, df2, i - 1)]
      result_vals == [r \in 1..rows |-> [c \in 1..cols |->
                        CellDisplay(CellOrNone(df1, r - 1, c - 1), CellOrNone(df2, r - 1, c - 1))]]
      result_map == [rc \in (0..(rows - 1)) \X (0..(cols - 1)) |->
                        CellStatus(CellOrNone(df1, rc[1], rc[2]), CellOrNone(df2, rc[1], rc[2]),
                                   tol, ignore_case)]
  IN <<DataFrame(col_names, result_vals), result_map>>

\* ------------------------------------------------------------------------
\* Inputs: rule strings, expressions, datasets
\* ------------------------------------------------------------------------
\* "A1 + B1 = C1"
RuleSum == <<"A", "1", " ", "+", " ", "B", "1", " ", "=", " ", "C", "1">>

\* "FILE1:A1 = FILE2:A1"
RuleCross == <<"F", "I", "L", "E", "1", ":", "A", "1", " ", "=", " ", "F", "I", "L", "E", "2", ":", "A", "1">>

\* "A > 0"
RuleColumn == <<"A", " ", ">", " ", "0">>

\* "A1 = C1"
RuleEq == <<"A", "1", " ", "=", " ", "C", "1">>

\* "A1 = C2"
RuleEq2 == <<"A", "1", " ", "=", " ", "C", "2">>

\* "A1 != C1"
RuleNe == <<"A", "1", " ", "!", "=", " ", "C", "1">>

\* "A1 != C2"
RuleNe2 == <<"A", "1", " ", "!", "=", " ", "C", "2">>

\* "A1 < B1"
RuleLt == <<"A", "1", " ", "<", " ", "B", "1">>

\* "B1 <= A1"
RuleLe == <<"B", "1", " ", "<", "=", " ", "A", "1">>

\* "A1 <= A1"
RuleLeSame == <<"A", "1", " ", "<", "=", " ", "A", "1">>

\* "B1 > A1"
RuleGt == <<"B", "1", " ", ">", " ", "A", "1">>

\* "A1 >= B1"
RuleGe == <<"A", "1", " ", ">", "=", " ", "B", "1">>

\* "B1 >= B1"
RuleGeSame == <<"B", "1", " ", ">", "=", " ", "B", "1">>

\* "2 + 3 = 5"
RuleLiteral == <<"2", " ", "+", " ", "3", " ", "=", " ", "5">>

\* "A1 / 0 > 1"
RuleDivZero == <<"A", "1", " ", "/", " ", "0", " ", ">", " ", "1">>

\* "A1 + B1"
RuleNoOperator == <<"A", "1", " ", "+", " ", "B", "1">>

\* "A1 # 2 = 3"
RuleBadChar == <<"A", "1", " ", "#", " ", "2", " ", "=", " ", "3">>

\* "A1:B2 = 1"
RuleRange == <<"A", "1", ":", "B", "2", " ", "=", " ", "1">>

\* "FILE1:A1:B2 = 1"
RuleFileRange == <<"F", "I", "L", "E", "1", ":", "A", "1", ":", "B", "2", " ", "=", " ", "1">>

\* "(A1 + B1 = C1"
RuleOpenParen == <<"(", "A", "1", " ", "+", " ", "B", "1", " ", "=", " ", "C", "1">>

\* "A1 + B1) = C1"
RuleCloseParen == <<"A", "1", " ", "+", " ", "B", "1", ")", " ", "=", " ", "C", "1">>

\* "A1 + = C1"
RuleMissingOperand == <<"A", "1", " ", "+", " ", "=", " ", "C", "1">>

\* "A1 B1 = C1"
RuleTwoOperands == <<"A", "1", " ", "B", "1", " ", "=", " ", "C", "1">>

\* "A1 = Z1"
RuleColOut == <<"A", "1", " ", "=", " ", "Z", "1">>

\* "A9 = A1"
RuleRowOut == <<"A", "9", " ", "=", " ", "A", "1">>

\* "FILE2:A1 = 10"
RuleFile2Only == <<"F", "I", "L", "E", "2", ":", "A", "1", " ", "=", " ", "1", "0">>

\* "A1"
ExprA1 == <<"A", "1">>

\* "B1"
ExprB1 == <<"B", "1">>

\* "A2"
ExprA2 == <<"A", "2">>

\* "7"
ExprNumber == <<"7">>

\* "-3"
ExprNegative == <<"-", "3">>

\* "1 / 0"
ExprInfinite == <<"1", " ", "/", " ", "0">>

\* "1 / 0 - 1 / 0"
ExprNotANumber == <<"1", " ", "/", " ", "0", " ", "-", " ", "1", " ", "/", " ", "0">>

\* "A"
ExprColumn == <<"A">>

\* "FILE1:A"
ExprFileColumn == <<"F", "I", "L", "E", "1", ":", "A">>

\* "A + 1"
ExprColumnPlus1 == <<"A", " ", "+", " ", "1">>

\* "1 + A"
Expr1PlusColumn == <<"1", " ", "+", " ", "A">>

\* "A * A"
ExprColumnTimesColumn == <<"A", " ", "*", " ", "A">>

\* "FILE1:A1"
ExprFile1A1 == <<"F", "I", "L", "E", "1", ":", "A", "1">>

\* "FILE2:A1"
ExprFile2A1 == <<"F", "I", "L", "E", "2", ":", "A", "1">>

\* "A1:B2"
ExprRange == <<"A", "1", ":", "B", "2">>

\* "FILE1:A1:B2"
ExprFileRange == <<"F", "I", "L", "E", "1", ":", "A", "1", ":", "B", "2">>

\* "FILE2:A:B"
ExprFile2ColRange == <<"F", "I", "L", "E", "2", ":", "A", ":", "B">>

\* "A1 + B1 * 2"
ExprPrecedence == <<"A", "1", " ", "+", " ", "B", "1", " ", "*", " ", "2">>

\* "(A1 + B1) * 2"
ExprParens == <<"(", "A", "1", " ", "+", " ", "B", "1", ")", " ", "*", " ", "2">>

\* ""
ExprEmpty == <<>>

\* "A1 +"
ExprTrailingOp == <<"A", "1", " ", "+">>

\* "x = x"
SelfRule(x) == x \o <<" ", "=", " ">> \o x

\* single-cell addresses for the rules "x = x"
SelfPool == {<<"A", "1">>, <<"B", "1">>, <<"A", "2">>, <<"C", "2">>, <<"B", "3">>}

RulePool ==
  {RuleSum, RuleCross, RuleColumn, RuleEq, RuleEq2,
   RuleNe, RuleNe2, RuleLt, RuleLe, RuleLeSame,
   RuleGt, RuleGe, RuleGeSame, RuleLiteral, RuleDivZero,
   RuleNoOperator, RuleBadChar, RuleRange, RuleFileRange, RuleOpenParen,
   RuleCloseParen, RuleMissingOperand, RuleTwoOperands, RuleColOut, RuleRowOut,
   RuleFile2Only}
  \cup {SelfRule(x) : x \in SelfPool}

\* operand texts without a comparison character, each with its text after str.strip()
OperandTexts ==
  {[text |-> <<"A", "1">>, trimmed |-> <<"A", "1">>],
   [text |-> <<" ", "A", "1", " ", "+", " ", "B", "1", " ">>, trimmed |-> <<"A", "1", " ", "+", " ", "B", "1">>],
   [text |-> <<"C", "1", " ", " ">>, trimmed |-> <<"C", "1">>],
   [text |-> <<>>, trimmed |-> <<>>],
   [text |-> <<" ", "(", "A", "1", " ", "-", " ", "2", ")", " ", "*", " ", "B", "1">>, trimmed |-> <<"(", "A", "1", " ", "-", " ", "2", ")", " ", "*", " ", "B", "1">>]}

\* rule strings in which more than one comparison operator occurs, each with the
\* (left, operator, right) it is split into
SeveralOperators ==
  {[rule |-> <<"A", "1", " ", "=", " ", "B", "1", " ", ">", "=", " ", "C", "1">>,
    parts |-> <<<<"A", "1", " ", "=", " ", "B", "1">>, <<">", "=">>, <<"C", "1">>>>],
   [rule |-> <<"A", "1", " ", "<", " ", "B", "1", " ", "=", " ", "C", "1">>,
    parts |-> <<<<"A", "1", " ", "<", " ", "B", "1">>, <<"=">>, <<"C", "1">>>>],
   [rule |-> <<"A", "1", " ", "=", " ", "B", "1", " ", "=", " ", "C", "1">>,
    parts |-> <<<<"A", "1">>, <<"=">>, <<"B", "1", " ", "=", " ", "C", "1">>>>],
   [rule |-> <<"A", "1", " ", ">", " ", "B", "1", " ", "<", " ", "C", "1">>,
    parts |-> <<<<"A", "1">>, <<">">>, <<"B", "1", " ", "<", " ", "C", "1">>>>],
   [rule |-> <<"A", "1", " ", "<", " ", "B", "1", " ", ">", " ", "C", "1">>,
    parts |-> <<<<"A", "1", " ", "<", " ", "B", "1">>, <<">">>, <<"C", "1">>>>],
   [rule |-> <<"A", "1", " ", "=", "=", " ", "B", "1">>,
    parts |-> <<<<"A", "1">>, <<"=">>, <<"=", " ", "B", "1">>>>],
   [rule |-> <<"A", "1", " ", "=", ">", " ", "B", "1">>,
    parts |-> <<<<"A", "1">>, <<"=">>, <<">", " ", "B", "1">>>>]}

\* rule strings without a comparison operator
NoOperator == {RuleNoOperator, <<>>, <<"A", "1", " ", "!", " ", "B", "1">>}

\* the rule strings passed to parse_rule
ParseRulePool ==
  {l.text \o op \o r.text : l \in OperandTexts, op \in Range(RuleOps), r \in OperandTexts}
  \cup {x.rule : x \in SeveralOperators} \cup NoOperator

\* well-formed arithmetic expressions, each with the value of its conventional reading on
\* row 1 = {A: 2, B: 3, C: 5}, in units
Arithmetic ==
  {[expr |-> <<"A", "1", " ", "+", " ", "B", "1", " ", "*", " ", "C", "1">>,
    value |-> 17 * One],
   [expr |-> <<"(", "A", "1", " ", "+", " ", "B", "1", ")", " ", "*", " ", "C", "1">>,
    value |-> 25 * One],
   [expr |-> <<"A", "1", " ", "-", " ", "B", "1", " ", "-", " ", "C", "1">>,
    value |-> -6 * One],
   [expr |-> <<"C", "1", " ", "/", " ", "A", "1", " ", "/", " ", "5">>,
    value |-> One \div 2],
   [expr |-> <<"C", "1", " ", "%", " ", "B", "1", " ", "*", " ", "A", "1">>,
    value |-> 4 * One],
   [expr |-> <<"A", "1", " ", "*", " ", "(", "B", "1", " ", "+", " ", "C", "1", ")", " ", "-", " ", "1">>,
    value |-> 15 * One],
   [expr |-> <<"C", "1", " ", "-", " ", "(", "B", "1", " ", "-", " ", "A", "1", ")">>,
    value |-> 4 * One],
   [expr |-> <<"A", "1", " ", "+", " ", "C", "1", " ", "%", " ", "B", "1">>,
    value |-> 4 * One],
   [expr |-> <<"2", " ", "*", " ", "-", "3">>,
    value |-> -6 * One],
   [expr |-> <<"(", "A", "1", " ", "+", " ", "B", "1", ")", " ", "-", " ", "3">>,
    value |-> 2 * One],
   [expr |-> <<"(", "A", "1", " ", "+", " ", "B", "1", ")", "-", "3">>,
    value |-> 2 * One],
   [expr |-> <<"C", "1", " ", "-", "3">>,
    value |-> 2 * One]}

\* the rules offered to add_rule
RegisteredPool == {RuleSum, RuleCross}

\* scalar operands for the division and modulo checks
OperandPool == {ExprA1, ExprB1, ExprA2, ExprNumber, ExprNegative, ExprInfinite, ExprNotANumber}

\* "(x) / 0" and "(x) % 0"
OverZero(x) == <<"(">> \o x \o <<")", " ", "/", " ", "0">>

ModuloZero(x) == <<"(">> \o x \o <<")", " ", "%", " ", "0">>

\* single-cell and whole-column addresses
AddressPool ==
  {<<"A", "1">>, <<"B", "1">>, <<"c", "2">>, <<"A", "0">>, <<"Z", "1">>, <<"A", "9">>,
   <<"A">>, <<"D">>}

\* the addresses passed to get_cell_value directly
CellRefPool == AddressPool \cup SelfPool \cup {<<"B">>, <<"C">>, <<"A", "1", ":", "B", "2">>}

WithFile1(x) == FILE1 \o x

WithFile2(x) == FILE2 \o x

ExpressionPool ==
  {ExprA1, ExprB1, ExprA2, ExprNumber, ExprNegative,
   ExprInfinite, ExprNotANumber, ExprColumn, ExprFileColumn, ExprColumnPlus1,
   Expr1PlusColumn, ExprColumnTimesColumn, ExprFile1A1, ExprFile2A1, ExprRange,
   ExprFileRange, ExprFile2ColRange, ExprPrecedence, ExprParens, ExprEmpty,
   ExprTrailingOp}
  \cup {OverZero(x) : x \in OperandPool} \cup {ModuloZero(x) : x \in OperandPool}
  \cup AddressPool \cup {WithFile1(x) : x \in AddressPool} \cup {WithFile2(x) : x \in AddressPool}

ColA == <<"A">>

ColB == <<"B">>

ColC == <<"C">>

\* row 1 = {A: 2, B: 3, C: 5}
SheetSum5 == DataFrame(<<ColA, ColB, ColC>>, << <<NpInt(2), NpInt(3), NpInt(5)>> >>)

\* row 1 = {A: 2, B: 3, C: 6}
SheetSum6 == DataFrame(<<ColA, ColB, ColC>>, << <<NpInt(2), NpInt(3), NpInt(6)>> >>)

\* [[1, 2], [3, 4]]
Grid1234 == DataFrame(<<ColA, ColB>>, << <<NpInt(1), NpInt(2)>>, <<NpInt(3), NpInt(4)>> >>)

\* [[1, 2], [3, 5]]
Grid1235 == DataFrame(<<ColA, ColB>>, << <<NpInt(1), NpInt(2)>>, <<NpInt(3), NpInt(5)>> >>)

\* column A = [1, -1, 2]
SheetColumn == DataFrame(<<ColA>>, << <<NpInt(1)>>, <<NpInt(-1)>>, <<NpInt(2)>> >>)

Sheet10 == DataFrame(<<ColA>>, << <<NpInt(10)>> >>)

Sheet11 == DataFrame(<<ColA>>, << <<NpInt(11)>> >>)

\* A: float column with a missing value, B: object column, C: float column
\* whose cells are 2.0000005 and 2.000001
SheetMixed1 ==
  DataFrame(<<ColA, ColB, ColC>>,
            << <<Float(2 * One), Text(<<"a", "b", "c">>), Float(2 * One + 1)>>,
               <<NaNCell, PyInt(4), Float(2 * One + Epsilon)>> >>)

\* A: float column with a missing value, B: object column that holds the text "inf" in row 3,
\* C: object column with a missing value
SheetMixed2 ==
  DataFrame(<<ColA, ColB, ColC>>,
            << <<Float(2 * One + 1), Text(<<"A", "B", "C">>), Text(<<"5">>)>>,
               <<NaNCell, PyInt(5), NoneCell>>,
               <<Float(0), Text(<<"i", "n", "f">>), PyInt(0)>> >>)

\* one column, no rows
SheetNoRows == DataFrame(<<ColA>>, <<>>)

\* the (df1, df2) pairs a caller passes; df2 is None for a single-sheet validation
DatasetPairs ==
  {<<SheetSum5, None>>, <<SheetSum6, None>>, <<Grid1234, Grid1235>>, <<SheetColumn, None>>,
   <<Sheet10, Sheet10>>, <<Sheet10, Sheet11>>, <<SheetMixed1, SheetMixed2>>,
   <<SheetMixed2, SheetSum5>>, <<SheetNoRows, SheetColumn>>, <<SheetSum5, SheetColumn>>}

\* the options a caller passes to compare_direct; tolerance in units
OptionsPool == [tolerance : {0, 1, One}, ignore_case : BOOLEAN]

DefaultOptions == [tolerance |-> 0, ignore_case |-> FALSE]

\* longest rule list the model builds
MaxRules == 2

\* ------------------------------------------------------------------------
\* ExcelComparator.col_letters_to_index, ComparisonService._col_index_to_letter
\* ------------------------------------------------------------------------
\* variant: the final "- 1" is missing, so A is 1
col_letters_to_index_one_based(col_letters) == LettersValue(col_letters)

\* A -> 0, B -> 1, AA -> 26; the letters are upper-cased first
col_letters_to_index(col_letters) == LettersValue(col_letters) - 1

\* the while loop of _col_index_to_letter: one letter per pass, prepended
RECURSIVE IndexLetters(_, _)
IndexLetters(col_index, letters) ==
  IF col_index < 0 THEN letters
  ELSE IndexLetters((col_index \div 26) - 1,
                    <<UpperLetters[(col_index % 26) + 1]>> \o letters)

\* 0 -> A, 25 -> Z, 26 -> AA; "" for a negative index
col_index_to_letter(col_index) == IF col_index < 0 THEN <<>> ELSE IndexLetters(col_index, <<>>)

\* largest column index converted
MaxColIndex == 730

\* column letters a caller writes, in either case
LettersPool ==
  {<<"A">>, <<"Z">>, <<"A", "A">>, <<"a", "z">>, <<"Z", "Z">>, <<"A", "A", "A">>, <<"b", "C">>}

\* ------------------------------------------------------------------------
\* ExcelComparator: load_workbook, get_sheet_dataframe, parse_range, select_cells,
\* compare_with_rules, compare_sheets_with_rules
\* ------------------------------------------------------------------------
\* an optional text argument: None, or a str
NoText == [isnone |-> TRUE, s |-> <<>>]

Str(s) == [isnone |-> FALSE, s |-> s]

\* the truth value of an optional text: None and "" are false
TextIsTrue(x) == ~x.isnone /\ x.s # <<>>

\* "alias = alias or filepath"
OrElse(x, y) == IF TextIsTrue(x) THEN x ELSE y

\* load_workbook_all_sheets(filepath) on the files of the disk: the sheets, or the
\* error pandas raises for a file it cannot read
load_workbook_all_sheets(filepath, disk) ==
  IF filepath \in DOMAIN disk THEN Ok(disk[filepath]) ELSE Err("FileNotFoundError")

\* workbooks[alias] = {'path': filepath, 'sheets': sheets}
Loaded(books, alias, sheets) ==
  [a \in DOMAIN books \cup {alias} |-> IF a = alias THEN sheets ELSE books[a]]

\* list(self.workbooks[alias]['sheets'].keys()), or [] for an alias not loaded
list_sheets(alias, books) ==
  IF alias \notin DOMAIN books THEN {} ELSE DOMAIN books[alias]

\* variant: a sheet that is not there reads as an empty DataFrame
get_sheet_dataframe_lenient(alias, sheet_name, books) ==
  IF alias \notin DOMAIN books THEN Ok(DataFrame(<<>>, <<>>))
  ELSE IF sheet_name \notin DOMAIN books[alias] THEN Ok(DataFrame(<<>>, <<>>))
  ELSE Ok(books[alias][sheet_name])

\* the copy of the sheet with a 0-based index; ValueError for an alias or a sheet name
\* that is not loaded (err names which of the two messages)
get_sheet_dataframe(alias, sheet_name, books) ==
  IF alias \notin DOMAIN books THEN Err("WorkbookNotLoaded")
  ELSE IF sheet_name \notin DOMAIN books[alias] THEN Err("SheetMissing")
  ELSE Ok(books[alias][sheet_name])

\* s.split(sep)
RECURSIVE Split(_, _)
Split(s, sep) ==
  IF \A i \in 1..Len(s) : s[i] # sep THEN <<s>>
  ELSE LET j == CHOOSE i \in 1..Len(s) : s[i] = sep /\ \A k \in 1..(i - 1) : s[k] # sep
       IN <<SubSeq(s, 1, j - 1)>> \o Split(SubSeq(s, j + 1, Len(s)), sep)

\* (column, row), both 0-based, of an address cell_ref_re matches
Corner(ref, e) ==
  <<col_letters_to_index(Slice(ref, 1, e)), DigitsVal(Slice(ref, e, Len(ref) + 1)) - 1>>

\* "return min(c1,c2), min(r1,r2), max(c1,c2), max(r1,r2)"
Normalize(a, b) == <<Min(a[1], b[1]), Min(a[2], b[2]), Max(a[1], b[1]), Max(a[2], b[2])>>

\* the 0-based (c1, r1, c2, r2) of "A1" or "A1:C10"
RangeOf(parts) ==
  IF Len(parts) = 1 THEN
    IF ~IsCellRef(parts[1]) THEN Err("ValueError")
    ELSE Ok(Normalize(Corner(parts[1], ScanEnd(parts[1], 1, AlphaChars)),
                      Corner(parts[1], ScanEnd(parts[1], 1, AlphaChars))))
  ELSE IF Len(parts) = 2 THEN
    IF ~IsCellRef(parts[1]) \/ ~IsCellRef(parts[2]) THEN Err("ValueError")
    ELSE Ok(Normalize(Corner(parts[1], ScanEnd(parts[1], 1, AlphaChars)),
                      Corner(parts[2], ScanEnd(parts[2], 1, AlphaChars))))
  ELSE Err("ValueError")

parse_range(rng) == RangeOf(Split(rng, ":"))

\* df.loc[r1:r2, cols] with cols = df.columns[c1:c2+1], index reset
SubFrame(df, c1, r1, c2, r2) ==
  DataFrame(SubSeq(df.columns, c1 + 1, c2 + 1),
            [i \in 1..Max(0, r2 - r1 + 1) |-> SubSeq(df.data[r1 + i], c1 + 1, c2 + 1)])

\* the range clamped to the sheet; a sheet without columns gives an empty DataFrame
Clamped(df, box) ==
  IF NCols(df) = 0 THEN DataFrame(<<>>, <<>>)
  ELSE SubFrame(df, Max(0, box[1]), Max(0, box[2]),
                Min(NCols(df) - 1, box[3]), Min(NRows(df) - 1, box[4]))

Selected(sheet, box) ==
  IF ~sheet.ok THEN sheet
  ELSE IF ~box.ok THEN box
  ELSE Ok(Clamped(sheet.val, box.val))

select_cells(workbook_alias, sheet_name, rng, books) ==
  Selected(get_sheet_dataframe(workbook_alias, sheet_name, books), parse_range(rng))

\* passed_rate: (passed, total) for passed / total, and 1.0 as (1, 1) without rules
Rate(passed, total) == IF total > 0 THEN <<passed, total>> ELSE <<1, 1>>

\* result_summary and comparison_results of a completed validation
Counted(both) ==
  << [total_rules |-> Len(both[1]) + Len(both[2]),
      passed_rules |-> Len(both[1]),
      failed_rules |-> Len(both[2]),
      passed_rate |-> Rate(Len(both[1]), Len(both[1]) + Len(both[2]))],
     [passed |-> both[1], failed |-> both[2]] >>

\* result_summary and comparison_results of "except Exception as e"
ErrorResult(e) ==
  << [total_rules |-> 0, passed_rules |-> 0, failed_rules |-> 0,
      passed_rate |-> <<0, 1>>, error |-> e],
     [passed |-> <<>>, failed |-> <<>>, error |-> e] >>

\* the body of compare_with_rules once both sheets were asked for
Validated(rules, first, second) ==
  IF ~first.ok THEN ErrorResult(first.err)
  ELSE IF ~second.ok THEN ErrorResult(second.err)
  ELSE Counted(validate_all_rules(rules, first.val, second.val))

\* the second sheet is read only when alias2 and sheet_name2 are both given
compare_with_rules(alias1, sheet_name1, alias2, sheet_name2, books, rules) ==
  Validated(rules,
            get_sheet_dataframe(alias1, sheet_name1, books),
            IF TextIsTrue(alias2) /\ TextIsTrue(sheet_name2)
            THEN get_sheet_dataframe(alias2, sheet_name2, books)
            ELSE Ok(None))

\* col_names: the file-1 name while file 1 has the column, else the file-2 name
CombinedName(df1, df2, i) ==
  IF i <= NCols(df1) THEN [file |-> 1, name |-> df1.columns[i]]
  ELSE [file |-> 2, name |-> df2.columns[i]]

\* one row of combined_data: the row of file 1, then the row of file 2, None past the end
CombinedRow(df1, df2, r) ==
  [c \in 1..NCols(df1) |-> IF r <= NRows(df1) THEN df1.data[r][c] ELSE NoneCell]
  \o [c \in 1..NCols(df2) |-> IF r <= NRows(df2) THEN df2.data[r][c] ELSE NoneCell]

\* pd.DataFrame(combined_data, columns=col_names): a row of another width than
\* col_names is a ValueError
Combined(df1, df2) ==
  IF Max(NRows(df1), NRows(df2)) > 0
     /\ NCols(df1) + NCols(df2) # Max(NCols(df1), NCols(df2))
  THEN Err("ValueError")
  ELSE Ok(DataFrame([i \in 1..Max(NCols(df1), NCols(df2)) |-> CombinedName(df1, df2, i)],
                    [r \in 1..Max(NRows(df1), NRows(df2)) |-> CombinedRow(df1, df2, r)]))

\* the tuple returned, or the error tuple with an empty combined DataFrame
WithCombined(pair, combined) ==
  IF combined.ok THEN <<pair[1], pair[2], combined.val>>
  ELSE <<ErrorResult(combined.err)[1], ErrorResult(combined.err)[2], DataFrame(<<>>, <<>>)>>

\* cell_range given: validate the selected ranges
Ranged(rules, sheet1, sheet2, sub1, sub2) ==
  IF ~sheet1.ok THEN WithCombined(<<>>, sheet1)
  ELSE IF ~sheet2.ok THEN WithCombined(<<>>, sheet2)
  ELSE IF ~sub1.ok THEN WithCombined(<<>>, sub1)
  ELSE IF ~sub2.ok THEN WithCombined(<<>>, sub2)
  ELSE WithCombined(Counted(validate_all_rules(rules, sub1.val, sub2.val)),
                    Combined(sub1.val, sub2.val))

\* no cell_range: compare_with_rules on the same arguments
Unranged(sheet1, sheet2, pair) ==
  IF ~sheet1.ok THEN WithCombined(<<>>, sheet1)
  ELSE IF ~sheet2.ok THEN WithCombined(<<>>, sheet2)
  ELSE WithCombined(pair, Combined(sheet1.val, sheet2.val))

compare_sheets_with_rules(alias1, sheet_name1, alias2, sheet_name2, cell_range, books, rules) ==
  IF TextIsTrue(cell_range)
  THEN Ranged(rules,
              get_sheet_dataframe(alias1, sheet_name1, books),
              get_sheet_dataframe(alias2, sheet_name2, books),
              select_cells(alias1, sheet_name1, cell_range.s, books),
              select_cells(alias2, sheet_name2, cell_range.s, books))
  ELSE Unranged(get_sheet_dataframe(alias1, sheet_name1, books),
                get_sheet_dataframe(alias2, sheet_name2, books),
                compare_with_rules(alias1, sheet_name1, alias2, sheet_name2, books, rules))

\* ------------------------------------------------------------------------
\* State
\* ------------------------------------------------------------------------
VARIABLES
  rules,   \* RuleEngine.rules
  df1,     \* the primary dataset the caller holds
  df2,     \* the secondary dataset the caller holds, or None
  call,    \* the most recent call: its name and arguments
  ret,     \* what that call returned (an Err outcome when it raised)
  workbooks,  \* ExcelComparator.workbooks: alias -> sheet name -> DataFrame
  service     \* ComparisonService: its rules, file1_df and file2_df

vars == <<rules, df1, df2, call, ret, workbooks, service>>

\* ExcelComparator.__init__: no workbook is loaded
NoWorkbooks == [alias \in {} |-> <<>>]

\* ComparisonService.__init__: no rule, no sheet data
NewService == [rules |-> <<>>, file1_df |-> [name \in {} |-> <<>>], file2_df |-> [name \in {} |-> <<>>]]

Call(op, text, options) == [op |-> op, text |-> text, options |-> options]

Init ==
  /\ rules = <<>>
  /\ \E pair \in DatasetPairs : df1 = pair[1] /\ df2 = pair[2]
  /\ call = Call("__init__", <<>>, DefaultOptions)
  /\ ret = <<>>
  /\ workbooks = NoWorkbooks
  /\ service = NewService

\* variant: a rule already in the list is not added again
AddRuleUnique(rule) ==
  /\ Len(rules) < MaxRules
  /\ rules' = IF \E i \in 1..Len(rules) : rules[i] = rule THEN rules ELSE Append(rules, rule)
  /\ call' = Call("add_rule", rule, DefaultOptions)
  /\ ret' = <<>>
  /\ UNCHANGED <<workbooks, service, df1, df2>>

AddRule(rule) ==
  /\ Len(rules) < MaxRules
  /\ rules' = Append(rules, rule)
  /\ call' = Call("add_rule", rule, DefaultOptions)
  /\ ret' = <<>>
  /\ UNCHANGED <<workbooks, service, df1, df2>>

ClearRules ==
  /\ rules' = <<>>
  /\ call' = Call("clear_rules", <<>>, DefaultOptions)
  /\ ret' = <<>>
  /\ UNCHANGED <<workbooks, service, df1, df2>>

ValidateRule(rule) ==
  /\ call' = Call("validate_rule", rule, DefaultOptions)
  /\ ret' = validate_rule(rule, df1, df2)
  /\ UNCHANGED <<workbooks, service, rules, df1, df2>>

ValidateAllRules ==
  /\ call' = Call("validate_all_rules", <<>>, DefaultOptions)
  /\ ret' = validate_all_rules(rules, df1, df2)
  /\ UNCHANGED <<workbooks, service, rules, df1, df2>>

EvaluateExpression(expr) ==
  /\ call' = Call("evaluate_expression", expr, DefaultOptions)
  /\ ret' = evaluate_expression(expr, df1, df2)
  /\ UNCHANGED <<workbooks, service, rules, df1, df2>>

\* variant: a whole-column read writes the converted numbers back into the dataset
GetCellValueInPlace(cell_ref) ==
  /\ call' = Call("get_cell_value", cell_ref, DefaultOptions)
  /\ ret' = get_cell_value(cell_ref, df1)
  /\ df1' = IF ret'.ok /\ ret'.val.k = "series"
            THEN [df1 EXCEPT !.data =
                    [r \in 1..NRows(df1) |->
                       [c \in 1..NCols(df1) |->
                          IF c = ColIdx(cell_ref) + 1 /\ ret'.val.s[r].k = "fin"
                          THEN Float(ret'.val.s[r].v)
                          ELSE df1.data[r][c]]]]
            ELSE df1
  /\ UNCHANGED <<workbooks, service, rules, df2>>

GetCellValue(cell_ref) ==
  /\ call' = Call("get_cell_value", cell_ref, DefaultOptions)
  /\ ret' = get_cell_value(cell_ref, df1)
  /\ UNCHANGED <<workbooks, service, rules, df1, df2>>

CompareDirect(options) ==
  /\ ~df2.isnone
  /\ call' = Call("compare_direct", <<>>, options)
  /\ ret' = compare_direct(df1, df2, options)
  /\ UNCHANGED <<workbooks, service, rules, df1, df2>>

Next ==
  \/ \E rule \in RegisteredPool : AddRule(rule)
  \/ ClearRules
  \/ \E rule \in RulePool : ValidateRule(rule)
  \/ ValidateAllRules
  \/ \E expr \in ExpressionPool : EvaluateExpression(expr)
  \/ \E cell_ref \in CellRefPool : GetCellValue(cell_ref)
  \/ \E options \in OptionsPool : CompareDirect(options)

Spec == Init /\ [][Next]_vars

\* ------------------------------------------------------------------------
\* The column-letter conversions, applied to indices and to letters
\* ------------------------------------------------------------------------
InitLetters ==
  /\ rules = <<>>
  /\ df1 = None
  /\ df2 = None
  /\ call = Call("__init__", <<>>, DefaultOptions)
  /\ ret = <<>>
  /\ workbooks = NoWorkbooks
  /\ service = NewService

ColIndexToLetter(col_index) ==
  /\ call' = [op |-> "_col_index_to_letter", col_index |-> col_index]
  /\ ret' = col_index_to_letter(col_index)
  /\ UNCHANGED <<workbooks, service, rules, df1, df2>>

ColLettersToIndex(col_letters) ==
  /\ call' = [op |-> "col_letters_to_index", text |-> col_letters]
  /\ ret' = col_letters_to_index(col_letters)
  /\ UNCHANGED <<workbooks, service, rules, df1, df2>>

NextLetters ==
  \/ \E col_index \in 0..MaxColIndex : ColIndexToLetter(col_index)
  \/ \E col_letters \in LettersPool : ColLettersToIndex(col_letters)

SpecLetters == InitLetters /\ [][NextLetters]_vars

\* ------------------------------------------------------------------------
\* The parsers, applied to rule strings and to arithmetic over one dataset row
\* ------------------------------------------------------------------------
InitParse ==
  /\ rules = <<>>
  /\ df1 = SheetSum5
  /\ df2 = None
  /\ call = Call("__init__", <<>>, DefaultOptions)
  /\ ret = <<>>
  /\ workbooks = NoWorkbooks
  /\ service = NewService

ParseRule(rule) ==
  /\ call' = Call("parse_rule", rule, DefaultOptions)
  /\ ret' = parse_rule(rule)
  /\ UNCHANGED <<workbooks, service, rules, df1, df2>>

\* expressions with a '-' and the postfix form with the '-' folded into the literal
\* after the start, a blank, an operator or "(", and a binary operator elsewhere
MinusCases ==
  {[expr |-> <<"-", "3">>, postfix |-> <<NumTok(-3 * One)>>],
   [expr |-> <<"2", "*", "-", "3">>, postfix |-> <<NumTok(2 * One), NumTok(-3 * One), StrTok(<<"*">>)>>],
   [expr |-> <<"(", "-", "3", ")">>, postfix |-> <<NumTok(-3 * One)>>],
   [expr |-> <<"A", "1", " ", "-", "3">>, postfix |-> <<StrTok(<<"A", "1">>), NumTok(-3 * One)>>],
   [expr |-> <<"A", "1", "-", "3">>,
    postfix |-> <<StrTok(<<"A", "1">>), NumTok(3 * One), StrTok(<<"-">>)>>],
   [expr |-> <<"A", "1", " ", "-", " ", "3">>,
    postfix |-> <<StrTok(<<"A", "1">>), NumTok(3 * One), StrTok(<<"-">>)>>],
   [expr |-> <<"5", "-", "3">>,
    postfix |-> <<NumTok(5 * One), NumTok(3 * One), StrTok(<<"-">>)>>],
   [expr |-> <<"(", "A", "1", ")", "-", "3">>,
    postfix |-> <<StrTok(<<"A", "1">>), NumTok(3 * One), StrTok(<<"-">>)>>]}

\* expressions with parentheses, nested properly or not; the last two hold a
\* character the tokenizer rejects
ParenPool ==
  {<<"(", "A", "1", " ", "+", " ", "B", "1", ")", " ", "*", " ", "C", "1">>,
   <<"(", "(", "A", "1", ")", ")">>,
   <<"(", ")">>,
   <<"A", "1">>,
   <<"(", "A", "1", " ", "+", " ", "B", "1">>,
   <<"A", "1", " ", "+", " ", "B", "1", ")">>,
   <<")", "A", "1", "(">>,
   <<"(", "A", "1", " ", "+", " ", "(", "B", "1", ")">>,
   <<"(", "A", "1", ")", ")">>,
   <<"(", "A", "1", " ", "#", " ", "2">>,
   <<"(", "A", "1", ")", " ", "#", " ", "2">>}

\* the expressions handed to parse_expression
ParseExpressionPool == {x.expr : x \in MinusCases} \cup ParenPool

ParseExpression(expr) ==
  /\ call' = Call("parse_expression", expr, DefaultOptions)
  /\ ret' = parse_expression(expr)
  /\ UNCHANGED <<workbooks, service, rules, df1, df2>>

\* expressions that leave no value, one value or several on the stack, or run an
\* operator short of operands: "", "A1 B1", "A1 +", "+", "A1 + * B1", "A1 B1 +", "()",
\* "2 3", "A1"
StackPool ==
  {<<>>,
   <<"A", "1", " ", "B", "1">>,
   <<"A", "1", " ", "+">>,
   <<"+">>,
   <<"A", "1", " ", "+", " ", "*", " ", "B", "1">>,
   <<"A", "1", " ", "B", "1", " ", "+">>,
   <<"(", ")">>,
   <<"2", " ", "3">>,
   <<"A", "1">>}

NextParse ==
  \/ \E rule \in ParseRulePool : ParseRule(rule)
  \/ \E x \in Arithmetic : EvaluateExpression(x.expr)
  \/ \E expr \in StackPool : EvaluateExpression(expr)
  \/ \E expr \in ParseExpressionPool : ParseExpression(expr)

SpecParse == InitParse /\ [][NextParse]_vars

\* ------------------------------------------------------------------------
\* Properties
\* ------------------------------------------------------------------------
Failed == <<FALSE, <<>>, <<>>>>

SameOutcome(x, y) == x.ok = y.ok /\ x.err = y.err /\ (x.ok => x.val = y.val)

Member(x, seq) == \E i \in 1..Len(seq) : seq[i] = x

\* the rows 0..n-1 that belong to S, as column-rule evidence in row order
RECURSIVE RowSeq(_, _)
RowSeq(n, S) ==
  IF n = 0 THEN <<>>
  ELSE RowSeq(n - 1, S) \o (IF (n - 1) \in S THEN <<RowOnly(n - 1)>> ELSE <<>>)

\* C1: validate_all_rules puts a registered rule in the passed list if and only if
\* validating that rule on its own gives is_valid = true, and every other rule
\* (also one that errors) in the failed list.
C1_PassedIffValid ==
  call.op = "validate_all_rules" =>
    \A i \in 1..Len(rules) :
      LET is_valid == validate_rule(rules[i], df1, df2)[1]
      IN /\ Member(rules[i], ret[1]) <=> is_valid
         /\ Member(rules[i], ret[2]) <=> ~is_valid

\* C2: a coordinate where exactly one of the two source cells is absent (also when it
\* lies outside one grid) has status "empty" and shows the present cell's value.
C2_OneAbsentIsEmpty ==
  call.op = "compare_direct" =>
    \A rc \in DOMAIN ret[2] :
      LET v1 == CellOrNone(df1, rc[1], rc[2])
          v2 == CellOrNone(df2, rc[1], rc[2])
      IN (IsNa(v1) # IsNa(v2)) =>
           /\ ret[2][rc] = "empty"
           /\ ret[1].data[rc[1] + 1][rc[2] + 1] = (IF IsNa(v1) THEN v2 ELSE v1)

\* C3: the column rule "A > 0" returns per-row evidence: failed_cells is (i, None) for
\* exactly the rows where A > 0 is false, passed_cells is (i, None) for the rows where it
\* is true, and is_valid is true iff no row fails; over A = [1, -1, 2] that is
\* (false, [1], [0, 2]).
C3_ColumnRuleRows ==
  (call.op = "validate_rule" /\ call.text = RuleColumn /\ NCols(df1) >= 1) =>
    LET positive == {i \in 0..(NRows(df1) - 1) : FLess(Fin(0), ColumnElement(Iloc(df1, i, 0)))}
        others == (0..(NRows(df1) - 1)) \ positive
    IN /\ ret = <<others = {}, RowSeq(NRows(df1), others), RowSeq(NRows(df1), positive)>>
       /\ df1 = SheetColumn => ret = <<FALSE, <<RowOnly(1)>>, <<RowOnly(0), RowOnly(2)>>>>

\* C4: an arithmetic operator with a whole-column operand is applied element-wise:
\* "A + 1" and "1 + A" evaluate to the column whose row i is A[i] + 1.
C4_ColumnArithmetic ==
  (call.op = "evaluate_expression" /\ call.text \in {ExprColumnPlus1, Expr1PlusColumn}
     /\ NCols(df1) >= 1) =>
    /\ ret.ok
    /\ ret.val.k = "series"
    /\ ret.val.s = [r \in 1..NRows(df1) |-> FAdd(ColumnElement(Iloc(df1, r - 1, 0)), Fin(One))]

\* |d| / One < 1 / Million, that is |d| * Million < One, computed without the product
BelowMillionth(d) == Abs(d) <= (One - 1) \div Million

C6_DatasetPrefix ==
  /\ call.op = "evaluate_expression" =>
       \A x \in AddressPool :
         /\ call.text = WithFile1(x) => SameOutcome(ret, evaluate_expression(x, df1, df2))
         /\ (call.text = WithFile2(x) /\ ~df2.isnone) =>
               SameOutcome(ret, evaluate_expression(x, df2, df2))
  /\ (call.op = "validate_rule" /\ call.text = RuleCross /\ df1 = Sheet10 /\ df2 = Sheet10)
       => ret[1] = TRUE
  /\ (call.op = "validate_rule" /\ call.text = RuleCross /\ df1 = Sheet10 /\ df2 = Sheet11)
       => ret[1] = FALSE

\* C6 witness: FILE2:A1 was evaluated where the two datasets hold 10 and 11
C6_Witness ==
  /\ call.op = "evaluate_expression"
  /\ call.text = WithFile2(<<"A", "1">>)
  /\ df1 = Sheet10
  /\ df2 = Sheet11
  /\ ret.ok
  /\ ret.val = Fin(11 * One)

IsNumberCell(cell) == cell.t \in {"npint", "pyint", "float"}

\* C7: two numeric cells are "equal" iff |v1 - v2| <= tolerance and "diff" otherwise, and
\* v1 is displayed; [[1,2],[3,4]] against [[1,2],[3,5]] with tolerance 0 gives one "diff",
\* at (1,1).
C7_NumericTolerance ==
  call.op = "compare_direct" =>
    /\ \A rc \in DOMAIN ret[2] :
         LET v1 == CellOrNone(df1, rc[1], rc[2])
             v2 == CellOrNone(df2, rc[1], rc[2])
         IN (IsNumberCell(v1) /\ IsNumberCell(v2)) =>
              /\ ret[2][rc] = (IF Abs(v1.n - v2.n) <= call.options.tolerance
                               THEN "equal" ELSE "diff")
              /\ ret[1].data[rc[1] + 1][rc[2] + 1] = v1
    /\ (df1 = Grid1234 /\ df2 = Grid1235 /\ call.options.tolerance = 0) =>
         \A rc \in DOMAIN ret[2] : ret[2][rc] = (IF rc = <<1, 1>> THEN "diff" ELSE "equal")

\* the malformed rules of the pool, one per kind of failure
MalformedRules ==
  {RuleNoOperator, RuleBadChar, RuleRange, RuleFileRange, RuleOpenParen, RuleCloseParen,
   RuleMissingOperand, RuleTwoOperands, RuleColOut, RuleRowOut}

\* C8: validate_rule never raises; when parsing the rule or evaluating either side fails
\* (no comparison operator, bad character, range, parentheses, operand count, address out
\* of bounds, FILE2: without a second dataset) it returns (false, [], []).
C8_ErrorsGiveEmptyFailure ==
  call.op = "validate_rule" =>
    /\ Len(ret) = 3
    /\ ret[1] \in BOOLEAN
    /\ LET parsed == parse_rule(call.text)
       IN (\/ ~parsed.ok
           \/ ~evaluate_expression(parsed.val[1], df1, df2).ok
           \/ ~evaluate_expression(parsed.val[3], df1, df2).ok) => ret = Failed
    /\ call.text \in MalformedRules => ret = Failed
    /\ (call.text \in {RuleFile2Only, RuleCross} /\ df2.isnone) => ret = Failed

\* C8 witness: a rule whose right-hand address is out of bounds was validated
C8_Witness ==
  /\ call.op = "validate_rule"
  /\ call.text = RuleColOut
  /\ evaluate_expression(<<"A", "1">>, df1, df2).ok
  /\ ret = Failed

RangeExpressions == {ExprRange, ExprFileRange, ExprFile2ColRange}

ScalarSamples ==
  {Fin(0), Fin(1), Fin(-1), Fin(One), Fin(-3 * One), Fin(7 * One), Inf(1), Inf(-1), NaN}

\* C10: for every scalar x, x / 0 evaluates to the infinite sentinel and x % 0 to 0,
\* and neither raises.
C10_ZeroDivisor ==
  /\ \A x \in ScalarSamples :
       /\ op_func(<<"/">>, x, Fin(0)) = Inf(1)
       /\ op_func(<<"%">>, x, Fin(0)) = Fin(0)
  /\ call.op = "evaluate_expression" =>
       \A x \in OperandPool :
         evaluate_expression(x, df1, df2).ok =>
           /\ call.text = OverZero(x) => (ret.ok /\ ret.val = Inf(1))
           /\ call.text = ModuloZero(x) => (ret.ok /\ ret.val = Fin(0))

\* C10 witness: a negative literal was divided by zero
C10_Witness ==
  /\ call.op = "evaluate_expression"
  /\ call.text = OverZero(ExprNegative)
  /\ ret.ok
  /\ ret.val = Inf(1)

\* C11: for every single-cell address X within the dataset's bounds, whatever the cell
\* holds, the rule "X = X" validates as passed.
C11_SelfEqualityPasses ==
  call.op = "validate_rule" =>
    \A x \in SelfPool :
      (call.text = SelfRule(x) /\ get_cell_value(x, df1).ok) => ret[1] = TRUE

Upper(s) == [i \in 1..Len(s) |-> ToUpper(s[i])]

\* C12: converting a column index i >= 0 to letters and back returns i, with A = 0,
\* Z = 25 and AA = 26.
C12_ColumnLetterRoundTrip ==
  /\ call.op = "_col_index_to_letter" =>
       /\ ret # <<>>
       /\ \A k \in 1..Len(ret) : IsUpper(ret[k])
       /\ col_letters_to_index(ret) = call.col_index
       /\ call.col_index = 0 => ret = <<"A">>
       /\ call.col_index = 25 => ret = <<"Z">>
       /\ call.col_index = 26 => ret = <<"A", "A">>
  /\ call.op = "col_letters_to_index" =>
       /\ ret >= 0
       /\ col_index_to_letter(ret) = Upper(call.text)

\* C12 witness: index 702, the first with three letters, was converted
C12_Witness ==
  /\ call.op = "_col_index_to_letter"
  /\ call.col_index = 702
  /\ ret = <<"A", "A", "A">>

\* the single-cell addresses of the pools with their 0-based column and 1-based row
CellAddresses ==
  {[ref |-> <<"A", "1">>, col |-> 0, row |-> 1], [ref |-> <<"B", "1">>, col |-> 1, row |-> 1],
   [ref |-> <<"c", "2">>, col |-> 2, row |-> 2], [ref |-> <<"A", "0">>, col |-> 0, row |-> 0],
   [ref |-> <<"Z", "1">>, col |-> 25, row |-> 1], [ref |-> <<"A", "9">>, col |-> 0, row |-> 9],
   [ref |-> <<"A", "2">>, col |-> 0, row |-> 2], [ref |-> <<"C", "2">>, col |-> 2, row |-> 2],
   [ref |-> <<"B", "3">>, col |-> 1, row |-> 3]}

\* C13: a single-cell address whose column index is not below the column count, or whose
\* row number is 0 or above the row count, makes get_cell_value raise an out-of-range
\* error rather than return a value, and a rule that uses such an address fails.
C13_OutOfRangeRaises ==
  /\ call.op = "evaluate_expression" =>
       \A a \in CellAddresses :
         call.text = a.ref =>
           IF a.col >= NCols(df1) \/ a.row = 0 \/ a.row > NRows(df1)
           THEN ~ret.ok /\ ret.err \in {"ColOutOfRange", "RowOutOfRange"}
           ELSE ret.ok
  /\ \A a \in CellAddresses :
       (a.col >= NCols(df1) \/ a.row = 0 \/ a.row > NRows(df1)) => ~get_cell_value(a.ref, df1).ok
  /\ (call.op = "validate_rule" /\ call.text \in {RuleColOut, RuleRowOut}) => ret[1] = FALSE

\* C13 witness: A0 was evaluated on a dataset that has a column A and two rows
C13_Witness ==
  /\ call.op = "evaluate_expression"
  /\ call.text = <<"A", "0">>
  /\ df1 = Grid1234
  /\ ~ret.ok
  /\ ret.err = "RowOutOfRange"

\* the whole-column addresses of the pools with their 0-based column
ColumnAddresses ==
  {[ref |-> <<"A">>, col |-> 0], [ref |-> <<"B">>, col |-> 1], [ref |-> <<"C">>, col |-> 2],
   [ref |-> <<"D">>, col |-> 3]}

\* the texts of the datasets that are not numerals
NonNumericTexts == {<<"a", "b", "c">>, <<"A", "B", "C">>}

\* an absent cell, or a text cell that cannot be parsed as a number
ReadsAsZero(cell) == IsNa(cell) \/ (cell.t = "str" /\ cell.s \in NonNumericTexts)

\* C14: get_cell_value resolves an absent cell and unparsable text to 0 without raising,
\* for a single-cell address and for each element of a whole-column address; a
\* whole-column result has one number per dataset row, in row order.
C14_AbsentAndTextAreZero ==
  call.op = "get_cell_value" =>
    /\ \A a \in CellAddresses :
         (call.text = a.ref /\ a.col < NCols(df1) /\ a.row \in 1..NRows(df1)) =>
           LET cell == Iloc(df1, a.row - 1, a.col)
           IN /\ ReadsAsZero(cell) => ret = Ok(Fin(0))
              /\ IsNumberCell(cell) => ret = Ok(Fin(cell.n))
    /\ \A a \in ColumnAddresses :
         (call.text = a.ref /\ a.col < NCols(df1)) =>
           /\ ret.ok
           /\ ret.val.k = "series"
           /\ Len(ret.val.s) = NRows(df1)
           /\ \A r \in 1..NRows(df1) :
                LET cell == Iloc(df1, r - 1, a.col)
                IN /\ ret.val.s[r].k \in {"fin", "inf"}
                   /\ ReadsAsZero(cell) => ret.val.s[r] = Fin(0)
                   /\ IsNumberCell(cell) => ret.val.s[r] = Fin(cell.n)

\* C14 witness: column B, which holds the text "abc" and the number 4, was read
C14_Witness ==
  /\ call.op = "get_cell_value"
  /\ call.text = <<"B">>
  /\ df1 = SheetMixed1
  /\ ret = Ok(Series(<<Fin(0), Fin(4 * One)>>))

\* C15: a coordinate where both source cells are absent has status "equal" and an
\* absent display value.
C15_BothAbsentIsEqual ==
  call.op = "compare_direct" =>
    \A rc \in DOMAIN ret[2] :
      LET v1 == CellOrNone(df1, rc[1], rc[2])
          v2 == CellOrNone(df2, rc[1], rc[2])
      IN (IsNa(v1) /\ IsNa(v2)) =>
           /\ ret[2][rc] = "equal"
           /\ IsNa(ret[1].data[rc[1] + 1][rc[2] + 1])

\* C15 witness: both grids hold a missing float at (1, 0)
C15_Witness ==
  /\ call.op = "compare_direct"
  /\ df1 = SheetMixed1
  /\ df2 = SheetMixed2
  /\ ret[2][<<1, 0>>] = "equal"
  /\ ret[1].data[2][1] = NaNCell

\* C16: compare_direct returns a grid of max(rows1, rows2) rows and max(cols1, cols2)
\* columns and a status map with one entry, "equal", "diff" or "empty", for exactly the
\* coordinates of that shape; a coordinate outside a grid's extent reads that grid's cell
\* as absent.
C16_ResultShape ==
  call.op = "compare_direct" =>
    LET rows == IF NRows(df1) >= NRows(df2) THEN NRows(df1) ELSE NRows(df2)
        cols == IF NCols(df1) >= NCols(df2) THEN NCols(df1) ELSE NCols(df2)
    IN /\ Len(ret[1].data) = rows
       /\ Len(ret[1].columns) = cols
       /\ \A r \in 1..rows : Len(ret[1].data[r]) = cols
       /\ DOMAIN ret[2] = (0..(rows - 1)) \X (0..(cols - 1))
       /\ \A rc \in DOMAIN ret[2] : ret[2][rc] \in {"equal", "diff", "empty"}
       /\ \A r \in 0..(rows - 1), c \in 0..(cols - 1) :
            LET in1 == r < NRows(df1) /\ c < NCols(df1)
                in2 == r < NRows(df2) /\ c < NCols(df2)
            IN /\ (in1 /\ ~in2) =>
                    /\ ret[2][<<r, c>>] = CellStatus(Iloc(df1, r, c), NoneCell,
                                                     call.options.tolerance,
                                                     call.options.ignore_case)
                    /\ ret[1].data[r + 1][c + 1] = CellDisplay(Iloc(df1, r, c), NoneCell)
               /\ (in2 /\ ~in1) =>
                    /\ ret[2][<<r, c>>] = CellStatus(NoneCell, Iloc(df2, r, c),
                                                     call.options.tolerance,
                                                     call.options.ignore_case)
                    /\ ret[1].data[r + 1][c + 1] = Iloc(df2, r, c)
               /\ (~in1 /\ ~in2) =>
                    /\ ret[2][<<r, c>>] = "equal"
                    /\ ret[1].data[r + 1][c + 1] = NoneCell

\* C16 witness: a 1 x 3 grid compared with a 3 x 1 grid gives nine coordinates
C16_Witness ==
  /\ call.op = "compare_direct"
  /\ df1 = SheetSum5
  /\ df2 = SheetColumn
  /\ Len(ret[1].data) = 3
  /\ Len(ret[1].columns) = 3
  /\ Cardinality(DOMAIN ret[2]) = 9

\* C17: when both cells are present and at least one is text, the status is "equal" iff
\* the two string forms are the same, after lower-casing both when ignore_case is set;
\* "abc" against "ABC" is "equal" with ignore_case and "diff" without.
C17_StringComparison ==
  call.op = "compare_direct" =>
    /\ \A rc \in DOMAIN ret[2] :
         LET v1 == CellOrNone(df1, rc[1], rc[2])
             v2 == CellOrNone(df2, rc[1], rc[2])
             s1 == IF v1.t = "str" THEN v1.s ELSE CellToChars(v1)
             s2 == IF v2.t = "str" THEN v2.s ELSE CellToChars(v2)
             same == IF call.options.ignore_case THEN Lower(s1) = Lower(s2) ELSE s1 = s2
         IN (~IsNa(v1) /\ ~IsNa(v2) /\ (v1.t = "str" \/ v2.t = "str")) =>
              ret[2][rc] = (IF same THEN "equal" ELSE "diff")
    /\ (df1 = SheetMixed1 /\ df2 = SheetMixed2) =>
         ret[2][<<0, 1>>] = (IF call.options.ignore_case THEN "equal" ELSE "diff")
    /\ (df1 = SheetMixed2 /\ df2 = SheetSum5) =>
         (ret[2][<<0, 1>>] = "diff" /\ ret[2][<<0, 2>>] = "equal")

\* C17 witness: "abc" was compared with "ABC" under ignore_case
C17_Witness ==
  /\ call.op = "compare_direct"
  /\ call.options.ignore_case
  /\ df1 = SheetMixed1
  /\ df2 = SheetMixed2
  /\ Iloc(df1, 0, 1) = Text(<<"a", "b", "c">>)
  /\ Iloc(df2, 0, 1) = Text(<<"A", "B", "C">>)
  /\ ret[2][<<0, 1>>] = "equal"

\* C18: for each comparison operator op and operand texts L and R without a comparison
\* character, parse_rule(L op R) is (L trimmed, op, R trimmed); with several operators
\* the split is at the first occurrence of the earliest one in the order
\* >=, <=, !=, =, >, <; a string without a comparison operator raises the invalid-rule
\* error.
C18_ParseRuleSplit ==
  call.op = "parse_rule" =>
    /\ \A l \in OperandTexts, r \in OperandTexts :
         \A k \in 1..Len(RuleOps) :
           call.text = l.text \o RuleOps[k] \o r.text =>
             ret = Ok(<<l.trimmed, RuleOps[k], r.trimmed>>)
    /\ \A x \in SeveralOperators : call.text = x.rule => ret = Ok(x.parts)
    /\ call.text \in NoOperator => (~ret.ok /\ ret.err = "InvalidRule")

\* C18 witness: " A1 + B1 >=C1  " was split at its two-character operator
C18_Witness ==
  /\ call.op = "parse_rule"
  /\ call.text = <<" ", "A", "1", " ", "+", " ", "B", "1", " ", ">", "=", "C", "1", " ", " ">>
  /\ ret = Ok(<< <<"A", "1", " ", "+", " ", "B", "1">>, <<">", "=">>, <<"C", "1">> >>)

\* C19: the postfix sequence of a well-formed expression over + - * / % and parentheses
\* evaluates to the value of its conventional reading: * / % bind tighter than + -,
\* equal precedence associates left to right, parentheses override.
C19_ConventionalValue ==
  (call.op = "evaluate_expression" /\ df1 = SheetSum5) =>
    \A x \in Arithmetic : call.text = x.expr => ret = Ok(Fin(x.value))

\* C20: no call of validate_rule, validate_all_rules, evaluate_expression, get_cell_value
\* or compare_direct changes a dataset passed to it: shape, column labels and cell values
\* are the same after the call as before.
C20_DatasetsUnchanged ==
  [][/\ df1'.columns = df1.columns
     /\ df1'.data = df1.data
     /\ df2'.isnone = df2.isnone
     /\ df2'.columns = df2.columns
     /\ df2'.data = df2.data]_vars

\* C20 witness: a column that holds text and a number was read and still holds them
C20_Witness ==
  /\ call.op = "get_cell_value"
  /\ call.text = <<"B">>
  /\ ret.ok
  /\ ret.val.s = <<Fin(0), Fin(4 * One)>>
  /\ Iloc(df1, 0, 1) = Text(<<"a", "b", "c">>)
  /\ Iloc(df1, 1, 1) = PyInt(4)

\* ------------------------------------------------------------------------
\* The comparator with its workbooks
\* ------------------------------------------------------------------------
\* "file1", "file2", "other", "Sheet1", "Sheet2", "Nope"
AliasFile1 == Str(<<"f", "i", "l", "e", "1">>)

AliasFile2 == Str(<<"f", "i", "l", "e", "2">>)

AliasOther == Str(<<"o", "t", "h", "e", "r">>)

NameSheet1 == Str(<<"S", "h", "e", "e", "t", "1">>)

NameSheet2 == Str(<<"S", "h", "e", "e", "t", "2">>)

NameNope == Str(<<"N", "o", "p", "e">>)

\* "one.xlsx", "two.xlsx", "gone.xlsx"
PathOne == Str(<<"o", "n", "e", ".", "x", "l", "s", "x">>)

PathTwo == Str(<<"t", "w", "o", ".", "x", "l", "s", "x">>)

PathGone == Str(<<"g", "o", "n", "e", ".", "x", "l", "s", "x">>)

\* the files on disk: one.xlsx holds Sheet1 and Sheet2, two.xlsx holds Sheet1
Disk ==
  [path \in {PathOne, PathTwo} |->
     IF path = PathOne
     THEN [name \in {NameSheet1, NameSheet2} |->
             IF name = NameSheet1 THEN SheetSum5 ELSE SheetColumn]
     ELSE [name \in {NameSheet1} |-> SheetSum6]]

\* the (filepath, alias) pairs a caller loads
LoadPool ==
  {<<PathOne, AliasFile1>>, <<PathTwo, AliasFile2>>, <<PathGone, AliasFile1>>}

\* "A1:B1", "A1:B2:C3"
RangeA1B1 == Str(<<"A", "1", ":", "B", "1">>)

RangeThreeParts == Str(<<"A", "1", ":", "B", "2", ":", "C", "3">>)

\* the arguments of compare_with_rules and compare_sheets_with_rules
SheetArgs ==
  [alias1 : {AliasFile1, AliasOther}, sheet_name1 : {NameSheet1, NameNope},
   alias2 : {AliasFile2, AliasOther, NoText, Str(<<>>)},
   sheet_name2 : {NameSheet1, NameNope, NoText}]

RangeArgs == {NoText, RangeA1B1, RangeThreeParts}

InitBooks ==
  /\ rules = <<>>
  /\ df1 = None
  /\ df2 = None
  /\ call = Call("__init__", <<>>, DefaultOptions)
  /\ ret = <<>>
  /\ workbooks = NoWorkbooks
  /\ service = NewService

\* the workbooks after load_workbook: unchanged when the file cannot be read
AfterLoad(books, alias, sheets) ==
  IF sheets.ok THEN Loaded(books, alias, sheets.val) ELSE books

\* load_workbook returns the sheets, or raises Exception for a file it cannot read
Reraised(outcome) == IF outcome.ok THEN outcome ELSE Err("Exception")

LoadWorkbook(filepath, alias) ==
  /\ call' = [op |-> "load_workbook", filepath |-> filepath, alias |-> alias]
  /\ workbooks' = AfterLoad(workbooks, OrElse(alias, filepath),
                            load_workbook_all_sheets(filepath, Disk))
  /\ ret' = Reraised(load_workbook_all_sheets(filepath, Disk))
  /\ UNCHANGED <<rules, df1, df2, service>>

GetSheetDataframe(alias, sheet_name) ==
  /\ call' = [op |-> "get_sheet_dataframe", alias |-> alias, sheet_name |-> sheet_name]
  /\ ret' = get_sheet_dataframe(alias, sheet_name, workbooks)
  /\ UNCHANGED <<rules, df1, df2, workbooks, service>>

CompareWithRules(args) ==
  /\ call' = [op |-> "compare_with_rules", args |-> args, cell_range |-> NoText]
  /\ ret' = compare_with_rules(args.alias1, args.sheet_name1, args.alias2, args.sheet_name2,
                               workbooks, rules)
  /\ UNCHANGED <<rules, df1, df2, workbooks, service>>

CompareSheetsWithRules(args, cell_range) ==
  /\ call' = [op |-> "compare_sheets_with_rules", args |-> args, cell_range |-> cell_range]
  /\ ret' = compare_sheets_with_rules(args.alias1, args.sheet_name1, args.alias2,
                                      args.sheet_name2, cell_range, workbooks, rules)
  /\ UNCHANGED <<rules, df1, df2, workbooks, service>>

NextBooks ==
  \/ \E pair \in LoadPool : LoadWorkbook(pair[1], pair[2])
  \/ \E rule \in RegisteredPool : AddRule(rule)
  \/ ClearRules
  \/ \E alias \in {AliasFile1, AliasOther, NoText}, sheet_name \in {NameSheet1, NameNope, NoText} :
       GetSheetDataframe(alias, sheet_name)
  \/ \E args \in SheetArgs : CompareWithRules(args)
  \/ \E args \in SheetArgs, cell_range \in RangeArgs : CompareSheetsWithRules(args, cell_range)

SpecBooks == InitBooks /\ [][NextBooks]_vars

\* the sheet (alias, sheet_name) is not among the loaded workbooks
NotLoaded(alias, sheet_name) ==
  alias \notin DOMAIN workbooks \/ sheet_name \notin DOMAIN workbooks[alias]

\* a result summary that carries an 'error' message and counts of 0
IsErrorSummary(summary) ==
  /\ "error" \in DOMAIN summary
  /\ summary.error \in {"WorkbookNotLoaded", "SheetMissing"}
  /\ summary.total_rules = 0
  /\ summary.passed_rules = 0
  /\ summary.failed_rules = 0

\* C21: a sheet that a call reads and that is not loaded is an error: get_sheet_dataframe
\* raises ValueError; compare_with_rules (which reads the second sheet when alias2 and
\* sheet_name2 are both given) and compare_sheets_with_rules (which always reads both)
\* return a summary with an 'error' message and total, passed and failed counts of 0.
C21_UnloadedSheetIsError ==
  /\ call.op = "get_sheet_dataframe" =>
       (NotLoaded(call.alias, call.sheet_name)
          => ~ret.ok /\ ret.err \in {"WorkbookNotLoaded", "SheetMissing"})
  /\ call.op = "compare_with_rules" =>
       ((\/ NotLoaded(call.args.alias1, call.args.sheet_name1)
         \/ /\ TextIsTrue(call.args.alias2) /\ TextIsTrue(call.args.sheet_name2)
            /\ NotLoaded(call.args.alias2, call.args.sheet_name2))
          => IsErrorSummary(ret[1]) /\ "error" \in DOMAIN ret[2])
  /\ call.op = "compare_sheets_with_rules" =>
       ((\/ NotLoaded(call.args.alias1, call.args.sheet_name1)
         \/ NotLoaded(call.args.alias2, call.args.sheet_name2))
          => IsErrorSummary(ret[1]) /\ "error" \in DOMAIN ret[2])

\* C21 witness: with file1 loaded and a rule registered, compare_with_rules was asked for
\* a sheet file1 does not hold and returned the error summary
C21_Witness ==
  /\ call.op = "compare_with_rules"
  /\ call.args.alias1 = AliasFile1
  /\ call.args.sheet_name1 = NameNope
  /\ AliasFile1 \in DOMAIN workbooks
  /\ rules # <<>>
  /\ ret[1].error = "SheetMissing"
  /\ ret[1].total_rules = 0

\* ------------------------------------------------------------------------
\* ComparisonService: load_sheet_data, add_rule, run_comparison
\* ------------------------------------------------------------------------
\* a dict {sheet_name: DataFrame} as the service keeps in file1_df and file2_df
Dict(items) == [kind |-> "dict", items |-> items]

\* x has a .shape: x is a DataFrame, not a dict and not None
HasShape(x) == "columns" \in DOMAIN x /\ ~x.isnone

\* df.empty: an axis of length 0
IsEmpty(df) == NRows(df) = 0 \/ NCols(df) = 0

\* "not self.file1_df": the dict holds no sheet
NoSheets(sheets) == DOMAIN sheets = {}

\* any(not df.empty for df in sheets.values())
HasData(sheets) == \E name \in DOMAIN sheets : ~IsEmpty(sheets[name])

\* sheets[sheet_name] = df
Stored(sheets, sheet_name, df) ==
  [name \in DOMAIN sheets \cup {sheet_name} |-> IF name = sheet_name THEN df ELSE sheets[name]]

\* the service after load_sheet_data: the sheet is kept under alias "file1" or "file2"
AfterSheetData(svc, alias, sheet_name, sheet) ==
  IF ~sheet.ok THEN svc
  ELSE IF alias = AliasFile1
    THEN [svc EXCEPT !.file1_df = Stored(svc.file1_df, sheet_name, sheet.val)]
  ELSE IF alias = AliasFile2
    THEN [svc EXCEPT !.file2_df = Stored(svc.file2_df, sheet_name, sheet.val)]
  ELSE svc

\* ExcelComparator.validate_with_dataframes: the log line reads df1.shape, and df2.shape
\* unless df2 is None, before the engine validates
validate_with_dataframes(first, second, engine_rules) ==
  IF ~HasShape(first) THEN Err("AttributeError")
  ELSE IF ~second.isnone /\ ~HasShape(second) THEN Err("AttributeError")
  ELSE Ok(validate_all_rules(engine_rules, first, second))

\* the rule texts of the service's rule dicts, as run_comparison adds them to the engine
RuleTexts(dicts) == [i \in 1..Len(dicts) |-> dicts[i].rule]

\* the second argument run_comparison passes: None unless file2_df holds data
SecondArg(svc) ==
  IF NoSheets(svc.file2_df) \/ ~HasData(svc.file2_df) THEN None ELSE Dict(svc.file2_df)

\* "passed_rules, failed_rules, all_failed_cells, all_passed_cells = ..." and the result
\* built from them: (result_text, result_df, result_map) by their counts and evidence
RuleReport(svc, outcome) ==
  IF ~outcome.ok THEN outcome
  ELSE IF Len(outcome.val) # 4 THEN Err("ValueError")
  ELSE Ok([total |-> Len(svc.rules),
           passed |-> Len(outcome.val[1]),
           failed |-> Len(outcome.val[2]),
           result_map |-> [failed_cells |-> outcome.val[3], passed_cells |-> outcome.val[4]]])

\* the check run_comparison makes before comparing: None when it lets the call through
Precheck(svc, use_rules) ==
  IF use_rules /\ svc.rules # <<>>
  THEN IF NoSheets(svc.file1_df) \/ ~HasData(svc.file1_df) THEN Err("Exception") ELSE Ok(<<>>)
  ELSE IF NoSheets(svc.file1_df) \/ NoSheets(svc.file2_df) THEN Err("Exception")
  ELSE IF ~HasData(svc.file1_df) \/ ~HasData(svc.file2_df) THEN Err("Exception")
  ELSE Ok(<<>>)

\* the direct comparison: the debug line reads self.file1_df.shape of the dict
DirectReport(svc, options) ==
  IF ~HasShape(Dict(svc.file1_df)) \/ ~HasShape(Dict(svc.file2_df)) THEN Err("AttributeError")
  ELSE Ok(compare_direct(Dict(svc.file1_df), Dict(svc.file2_df), options))

run_comparison(svc, use_rules, options) ==
  IF ~Precheck(svc, use_rules).ok THEN Precheck(svc, use_rules)
  ELSE IF use_rules /\ svc.rules # <<>>
    THEN RuleReport(svc, validate_with_dataframes(Dict(svc.file1_df), SecondArg(svc),
                                                  RuleTexts(svc.rules)))
  ELSE DirectReport(svc, options)

\* RuleEngine.rules after run_comparison: replaced by the service's rules when the
\* rule comparison is reached
EngineRules(svc, use_rules, engine_rules) ==
  IF Precheck(svc, use_rules).ok /\ use_rules /\ svc.rules # <<>>
  THEN RuleTexts(svc.rules) ELSE engine_rules

\* the rules offered to ComparisonService.add_rule
ServiceRulePool == {RuleSum, RuleCross, RuleNoOperator}

InitService ==
  /\ rules = <<>>
  /\ df1 = None
  /\ df2 = None
  /\ call = Call("__init__", <<>>, DefaultOptions)
  /\ ret = <<>>
  /\ workbooks = NoWorkbooks
  /\ service = NewService

\* ComparisonService.load_workbook: the sheet names of the loaded workbook
SheetNames(books, alias, sheets) ==
  IF sheets.ok THEN Ok(list_sheets(alias, Loaded(books, alias, sheets.val))) ELSE Err("Exception")

ServiceLoadWorkbook(file_path, alias) ==
  /\ call' = [op |-> "service.load_workbook", filepath |-> file_path, alias |-> alias]
  /\ workbooks' = AfterLoad(workbooks, OrElse(alias, file_path),
                            load_workbook_all_sheets(file_path, Disk))
  /\ ret' = SheetNames(workbooks, OrElse(alias, file_path),
                       load_workbook_all_sheets(file_path, Disk))
  /\ UNCHANGED <<rules, df1, df2, service>>

LoadSheetData(alias, sheet_name) ==
  /\ call' = [op |-> "load_sheet_data", alias |-> alias, sheet_name |-> sheet_name]
  /\ ret' = get_sheet_dataframe(alias, sheet_name, workbooks)
  /\ service' = AfterSheetData(service, alias, sheet_name,
                               get_sheet_dataframe(alias, sheet_name, workbooks))
  /\ UNCHANGED <<rules, df1, df2, workbooks>>

\* a rule that parse_rule rejects raises and is not kept
ServiceAddRule(rule_text) ==
  /\ Len(service.rules) < MaxRules
  /\ call' = [op |-> "service.add_rule", text |-> rule_text]
  /\ ret' = IF parse_rule(rule_text).ok THEN Ok(TRUE) ELSE Err("Exception")
  /\ service' = IF parse_rule(rule_text).ok
                THEN [service EXCEPT !.rules = Append(@, [rule |-> rule_text, comment |-> <<>>])]
                ELSE service
  /\ UNCHANGED <<rules, df1, df2, workbooks>>

ServiceClearRules ==
  /\ call' = [op |-> "service.clear_rules"]
  /\ ret' = <<>>
  /\ service' = [service EXCEPT !.rules = <<>>]
  /\ UNCHANGED <<rules, df1, df2, workbooks>>

RunComparison(use_rules, options) ==
  /\ call' = [op |-> "run_comparison", use_rules |-> use_rules, options |-> options]
  /\ ret' = run_comparison(service, use_rules, options)
  /\ rules' = EngineRules(service, use_rules, rules)
  /\ UNCHANGED <<df1, df2, workbooks, service>>

NextService ==
  \/ \E pair \in LoadPool : ServiceLoadWorkbook(pair[1], pair[2])
  \/ \E alias \in {AliasFile1, AliasFile2, AliasOther}, sheet_name \in {NameSheet1, NameSheet2} :
       LoadSheetData(alias, sheet_name)
  \/ \E rule_text \in ServiceRulePool : ServiceAddRule(rule_text)
  \/ ServiceClearRules
  \/ \E use_rules \in BOOLEAN : RunComparison(use_rules, DefaultOptions)

SpecService == InitService /\ [][NextService]_vars

\* C22 (as claimed): with sheet data of file1 loaded and a rule registered,
\* run_comparison(use_rules=True) returns a result whose passed and failed counts sum
\* to the number of registered rules and whose result_map holds both evidence lists.
C22_RuleComparisonCompletes ==
  (/\ call.op = "run_comparison"
   /\ call.use_rules
   /\ service.rules # <<>>
   /\ HasData(service.file1_df))
  => /\ ret.ok
     /\ ret.val.passed + ret.val.failed = Len(service.rules)
     /\ DOMAIN ret.val.result_map = {"failed_cells", "passed_cells"}

\* ------------------------------------------------------------------------
\* The engine's rule list under batch validation
\* ------------------------------------------------------------------------
\* the rules registered here: one well-formed, two malformed
BatchPool == {RuleSum, RuleNoOperator, RuleBadChar}

BatchPairs == {<<SheetSum5, None>>, <<SheetSum6, None>>, <<Grid1234, Grid1235>>}

InitBatch ==
  /\ rules = <<>>
  /\ \E pair \in BatchPairs : df1 = pair[1] /\ df2 = pair[2]
  /\ call = Call("__init__", <<>>, DefaultOptions)
  /\ ret = <<>>
  /\ workbooks = NoWorkbooks
  /\ service = NewService

\* "L = R" and "L != R"
EqRule(L, R) == L \o <<" ", "=", " ">> \o R

NeRule(L, R) == L \o <<" ", "!", "=", " ">> \o R

\* scalar operands: "A1", "5", "A1 / 0", "0 - A1 / 0"
ScalarOperands ==
  {<<"A", "1">>, <<"5">>,
   <<"A", "1", " ", "/", " ", "0">>,
   <<"0", " ", "-", " ", "A", "1", " ", "/", " ", "0">>}

\* the equality and the inequality rule of every pair of operands
PairPool ==
  {EqRule(L, R) : L \in ScalarOperands, R \in ScalarOperands}
  \cup {NeRule(L, R) : L \in ScalarOperands, R \in ScalarOperands}

NextBatch ==
  \/ \E rule \in BatchPool : AddRule(rule)
  \/ ClearRules
  \/ \E rule \in BatchPool : ValidateRule(rule)
  \/ ValidateAllRules
  \/ \E rule \in PairPool : ValidateRule(rule)

SpecBatch == InitBatch /\ [][NextBatch]_vars

\* the elements of seq at the positions in S, from position i on, in order
RECURSIVE Pick(_, _, _)
Pick(seq, S, i) ==
  IF i > Len(seq) THEN <<>>
  ELSE (IF i \in S THEN <<seq[i]>> ELSE <<>>) \o Pick(seq, S, i + 1)

\* C23: validate_all_rules returns for every rule list, malformed rules included: the
\* positions of the rule list split into those of passed and those of failed, each
\* list in registration order, so every occurrence is in exactly one of them and
\* len(passed) + len(failed) is the number of rules.
C23_BatchCoversEveryRule ==
  call.op = "validate_all_rules" =>
    /\ Len(ret[1]) + Len(ret[2]) = Len(rules)
    /\ \E S \in SUBSET (1..Len(rules)) :
         /\ ret[1] = Pick(rules, S, 1)
         /\ ret[2] = Pick(rules, (1..Len(rules)) \ S, 1)

\* C23 witness: a batch of two rules, the first malformed, was validated to the end
C23_Witness ==
  /\ call.op = "validate_all_rules"
  /\ Len(rules) = 2
  /\ ~parse_rule(rules[1]).ok
  /\ parse_rule(rules[2]).ok
  /\ Len(ret[1]) + Len(ret[2]) = 2

\* C29: RuleEngine.rules is the sequence of strings passed to add_rule since the last
\* clear_rules: add_rule appends its argument (a duplicate too), clear_rules empties
\* the list, and validate_rule and validate_all_rules leave it as it is.
C29_RuleListIsInsertionHistory ==
  [][/\ call'.op = "add_rule" => rules' = Append(rules, call'.text)
     /\ call'.op = "clear_rules" => rules' = <<>>
     /\ call'.op \in {"validate_rule", "validate_all_rules"} => rules' = rules]_vars

\* C29 witness: the same rule was added twice and is in the list twice
C29_Witness ==
  /\ call.op = "add_rule"
  /\ call.text = RuleSum
  /\ rules = <<RuleSum, RuleSum>>

\* scalar rules with the 0-based (row, column) of the first cell address each references
FirstCells ==
  {[rule |-> RuleSum, cells |-> <<Coord(0, 0)>>],
   [rule |-> RuleEq2, cells |-> <<Coord(0, 0)>>],
   [rule |-> RuleGt, cells |-> <<Coord(0, 1)>>],
   [rule |-> RuleDivZero, cells |-> <<Coord(0, 0)>>],
   [rule |-> RuleLiteral, cells |-> <<>>],
   [rule |-> RuleCross, cells |-> <<Coord(0, 0)>>],
   [rule |-> RuleFile2Only, cells |-> <<Coord(0, 0)>>]}

\* both sides of the rule evaluate to scalars without error on the datasets at hand
EvaluatesToScalars(rule) ==
  /\ parse_rule(rule).ok
  /\ \A side \in {1, 3} :
       /\ evaluate_expression(parse_rule(rule).val[side], df1, df2).ok
       /\ evaluate_expression(parse_rule(rule).val[side], df1, df2).val.k # "series"

\* C24 (as claimed): a scalar rule that evaluates without error records the coordinate
\* of the first cell address it references, FILE1:/FILE2: prefix or not, in passed_cells
\* when it holds and in failed_cells when it does not, the other list empty; a rule
\* without a cell address records nothing.
C24_FirstCellEvidence ==
  \A x \in FirstCells :
    (call.op = "validate_rule" /\ call.text = x.rule /\ EvaluatesToScalars(x.rule)) =>
      /\ ret[1] => (ret[3] = x.cells /\ ret[2] = <<>>)
      /\ ~ret[1] => (ret[2] = x.cells /\ ret[3] = <<>>)

\* C25 (as claimed): a '-' is folded into the numeric literal right after it when it
\* stands at the start, after a blank, after an operator or after "("; after ")" or
\* after an operand it is the binary subtraction operator.
C25_MinusFolding ==
  call.op = "parse_expression" =>
    \A x \in MinusCases : call.text = x.expr => ret = Ok(x.postfix)

\* the parentheses of expr from position i on are properly nested, depth of them open
RECURSIVE Nested(_, _, _)
Nested(expr, i, depth) ==
  IF i > Len(expr) THEN depth = 0
  ELSE IF expr[i] = "(" THEN Nested(expr, i + 1, depth + 1)
  ELSE IF expr[i] = ")" THEN depth > 0 /\ Nested(expr, i + 1, depth - 1)
  ELSE Nested(expr, i + 1, depth)

\* C27 (as claimed): parse_expression raises the mismatched-parentheses error exactly
\* for the expressions whose parentheses are not properly nested.
C27_MismatchedIffNotNested ==
  call.op = "parse_expression" =>
    ((ret = Err("MismatchedParens")) <=> ~Nested(call.text, 1, 0))

\* C27 (amended): for an expression the tokenizer accepts, parse_expression raises the
\* mismatched-parentheses error exactly when the parentheses are not properly nested;
\* an expression the tokenizer rejects raises the tokenizer's error.
C27_MismatchedIffNotNestedTokens ==
  call.op = "parse_expression" =>
    IF Tokenize(call.text, 1, <<>>).ok
    THEN (ret = Err("MismatchedParens")) <=> ~Nested(call.text, 1, 0)
    ELSE ret = Tokenize(call.text, 1, <<>>)

\* C27 witness: "(A1 + (B1)" was parsed, its first parenthesis never closed
C27_Witness ==
  /\ call.op = "parse_expression"
  /\ call.text = <<"(", "A", "1", " ", "+", " ", "(", "B", "1", ")">>
  /\ ret = Err("MismatchedParens")

\* the number of values the postfix sequence leaves on a stack of d values, or -1 when
\* an operator finds fewer than two
RECURSIVE Depth(_, _)
Depth(rpn, d) ==
  IF rpn = <<>> THEN d
  ELSE IF Head(rpn).t = "str" /\ Head(rpn).s \in operators
    THEN (IF d < 2 THEN -1 ELSE Depth(Tail(rpn), d - 1))
  ELSE Depth(Tail(rpn), d + 1)

\* C26: evaluate_expression returns a value only when the postfix form leaves exactly
\* one value on the stack; when an operator finds fewer than two operands or the final
\* stack holds no value or several, the evaluation (its operands all resolved) raises
\* the invalid-expression error.
C26_ExactlyOneValue ==
  call.op = "evaluate_expression" =>
    /\ ret.ok => (parse_expression(call.text).ok /\ Depth(parse_expression(call.text).val, 0) = 1)
    /\ (parse_expression(call.text).ok /\ Depth(parse_expression(call.text).val, 0) # 1)
         => ret = Err("InvalidExpression")

\* C26 witness: "A1 B1" was evaluated and left two values on the stack
C26_Witness ==
  /\ call.op = "evaluate_expression"
  /\ call.text = <<"A", "1", " ", "B", "1">>
  /\ Depth(parse_expression(call.text).val, 0) = 2
  /\ ret = Err("InvalidExpression")

\* C30 (as claimed): when L and R both evaluate to scalars without error, results of a
\* division by zero included, exactly one of "L = R" and "L != R" passes.
C30_ExactlyOneOfEqNe ==
  call.op = "validate_rule" =>
    \A L \in ScalarOperands, R \in ScalarOperands :
      (call.text = EqRule(L, R) /\ EvaluatesToScalars(EqRule(L, R)))
        => (ret[1] <=> ~validate_rule(NeRule(L, R), df1, df2)[1])

====
